---- MODULE Spec2Model ----
(***************************************************************************)
(* A model of x2048 (src/x2048/2048.cc): the Grid class (cell storage,     *)
(* slide / only_merge / merge, is_full / is_fail, generate) and the part   *)
(* of Game::render_game / Game::run that drives it.                        *)
(*                                                                         *)
(* Cell values are the program's storage_t (int64_t).  They are kept as    *)
(* two-limb numbers <<hi, lo>> (value = hi * Limb + lo) so that a value of *)
(* 2^31 and more, which a merge of two 2^30 tiles produces, stays exact;   *)
(* ToInt is the conversion to the 32-bit int that slide returns.           *)
(***************************************************************************)
EXTENDS Integers, Sequences, FiniteSets, TLC

VARIABLES mWidth, mHeight, mGrid, mScore, pos_dist, call,
          config_width, config_height, screen, key, gen, proc, ggScore, play,
          game_grid, difficulty, cur_x, cur_y, game_over, first_click,
          num_flags, place, keys,
          snake_grid, grid_width, grid_height, head_pos, hided_bodies,
          snake_score, snake_proc, moved

\* minesweeper's game_context (src/minesweeper/minesweeper.cc); place is the
\* frame of grid::place_mines, keys the number of key events handled
minesVars == <<game_grid, difficulty, cur_x, cur_y, game_over, first_click,
               num_flags, place, keys>>

\* snake's grid and game (src/snake/snake.cc); moved holds the directions of
\* the last two movement steps and their number (not values of the program)
snakeVars == <<snake_grid, grid_width, grid_height, head_pos, hided_bodies,
               snake_score, snake_proc, moved>>

vars == <<mWidth, mHeight, mGrid, mScore, pos_dist, call,
          config_width, config_height, screen, key, gen, proc, ggScore, play,
          minesVars, snakeVars>>

gridVars == <<mWidth, mHeight, mGrid, mScore, pos_dist>>
gameVars == <<config_width, config_height, screen, key, gen, proc, ggScore, play,
              minesVars, snakeVars>>

\* no cell: the value of place.first while no block has been opened
NoCell == <<-1, -1>>

\* the three programs are separate executables: while one is followed the
\* variables of the others keep these values
NoMines ==
    /\ game_grid = << >>
    /\ difficulty = [width |-> 0, height |-> 0, num_mines |-> 0]
    /\ cur_x = 0
    /\ cur_y = 0
    /\ game_over = FALSE
    /\ first_click = TRUE
    /\ num_flags = 0
    /\ place = [pc |-> "none", i |-> 0, x |-> 0, y |-> 0, ret |-> 0, first |-> NoCell]
    /\ keys = 0

NoSnake ==
    /\ snake_grid = << >>
    /\ grid_width = 0
    /\ grid_height = 0
    /\ head_pos = <<-1, -1>>
    /\ hided_bodies = 0
    /\ snake_score = 0
    /\ snake_proc = "none"
    /\ moved = [n |-> 0, d |-> "DNone", before |-> "DNone"]

(***************************************************************************)
(* Bounds of the exploration.                                              *)
(***************************************************************************)
\* widest grid that is explored with every cell content
MaxW == 4
\* tallest grid that is explored with every cell content
MaxH == 2
\* most cells of a grid that is explored with every cell content
MaxArea == 4
\* put() writes the tiles 2^1 .. 2^MaxExp (and the tiles 2^30 and 2^31)
MaxExp == 2
\* put, slide and the merges are explored while the running score is at most
\* MaxScore
MaxScore == 4
\* most tiles put on the 4x4 grid
SparseTiles == 1

(***************************************************************************)
(* Numbers.                                                                *)
(***************************************************************************)
\* width in bits of int, the return type of Grid::slide
IntBits == 32

Limb == 2^16

\* the storage_t value of a natural number n < 2^31
W(n) == <<n \div Limb, n % Limb>>

Zero == W(0)

\* target *= 2 taken as a tripling (a variant the properties must tell from
\* Dbl)
Dbl_triples(v) == LET l == 3 * v[2] IN <<3 * v[1] + (l \div Limb), l % Limb>>

\* target *= 2 on a storage_t (no overflow below 2^62)
Dbl(v) == LET l == 2 * v[2] IN <<2 * v[1] + (l \div Limb), l % Limb>>

\* a + b on storage_t (the sum of two tile values)
Add(a, b) ==
    LET l == a[2] + b[2] IN <<a[1] + b[1] + (l \div Limb), l % Limb>>

\* storage_t -> int: the low IntBits bits, read as a signed number
ToInt(v) ==
    LET hiMod == 2^(IntBits - 16)
        h     == v[1] % hiMod
    IN  IF h >= hiMod \div 2 THEN (h - hiMod) * Limb + v[2]
                             ELSE h * Limb + v[2]

\* the smallest tile whose double does not fit int
BigTile == W(2^(IntBits - 2))

DIRECTION == {"UP", "DOWN", "RIGHT", "LEFT"}

(***************************************************************************)
(* Grid: storage and accessors.                                            *)
(***************************************************************************)
\* the bounds test of Grid::get
InRange(w, h, x, y) == ~(x >= w \/ x < 0 \/ y < 0 \/ y >= h)

\* mGrid[x + y * mWidth]
At(g, w, x, y) == g[x + y * w]

\* Grid::get: the cell, or the out_of_range exception
get(g, w, h, x, y) ==
    IF InRange(w, h, x, y) THEN [err |-> "none", val |-> At(g, w, x, y)]
                           ELSE [err |-> "OutOfRange", val |-> Zero]

\* put that does nothing, silently, outside the grid (a variant the properties
\* must tell from put)
put_silent_outside(g, w, h, x, y, v) ==
    IF InRange(w, h, x, y) THEN [err |-> "none", grid |-> [g EXCEPT ![x + y * w] = v]]
                           ELSE [err |-> "none", grid |-> g]

\* Grid::put: get(x, y) = val
put(g, w, h, x, y, v) ==
    IF InRange(w, h, x, y) THEN [err |-> "none", grid |-> [g EXCEPT ![x + y * w] = v]]
                           ELSE [err |-> "OutOfRange", grid |-> g]

\* a storage whose first cell is left with a tile (a variant the properties
\* must tell from Blank)
Blank_but_first(w, h) == [i \in 0 .. (w * h - 1) |-> IF i = 0 THEN <<0, 2>> ELSE <<0, 0>>]

\* new storage_t[mWidth * mHeight] followed by memset 0
Blank(w, h) == [i \in 0 .. (w * h - 1) |-> Zero]

is_full(g, w, h) == ~(\E i \in 0 .. (w * h - 1) : g[i] = Zero)

\* the coordinate offsets of Grid::__get_dire
DX(dire, coord) == CASE dire = "RIGHT" -> coord
                     [] dire = "LEFT"  -> 0 - coord
                     [] OTHER          -> 0

DY(dire, coord) == CASE dire = "DOWN" -> coord
                     [] dire = "UP"   -> 0 - coord
                     [] OTHER         -> 0

(***************************************************************************)
(* Grid::is_fail.  The cells are visited x-major; the four neighbour tests *)
(* are made in the order of the source, each guarded as in the source, and *)
(* the first one that decides (an equal neighbour, or a get outside the    *)
(* grid) ends the call.  Result: "true", "false" or "OutOfRange".          *)
(***************************************************************************)
is_fail_probe(g, w, h, x, y, nx, ny) ==
    IF ~InRange(w, h, nx, ny) THEN "OutOfRange"
    ELSE IF At(g, w, x, y) = At(g, w, nx, ny) THEN "false"
    ELSE "next"

is_fail_cell(g, w, h, x, y) ==
    LET t1 == IF y > 0 THEN is_fail_probe(g, w, h, x, y, x, y - 1) ELSE "next"
        t2 == IF y < w - 1 THEN is_fail_probe(g, w, h, x, y, x, y + 1) ELSE "next"
        t3 == IF x > 0 THEN is_fail_probe(g, w, h, x, y, x - 1, y) ELSE "next"
        t4 == IF x < h - 1 THEN is_fail_probe(g, w, h, x, y, x + 1, y) ELSE "next"
    IN  IF t1 # "next" THEN t1
        ELSE IF t2 # "next" THEN t2
        ELSE IF t3 # "next" THEN t3
        ELSE t4

RECURSIVE is_fail_from(_, _, _, _)
is_fail_from(g, w, h, k) ==
    IF k >= w * h THEN "true"
    ELSE LET r == is_fail_cell(g, w, h, k \div h, k % h)
         IN  IF r # "next" THEN r ELSE is_fail_from(g, w, h, k + 1)

is_fail(g, w, h) ==
    IF ~is_full(g, w, h) THEN "false" ELSE is_fail_from(g, w, h, 0)

(***************************************************************************)
(* Grid::slide.  merged_at is the index of the cell that was doubled, or   *)
(* -1 when the call merged nothing (it is not a value of the program).     *)
(***************************************************************************)
\* slide_caught with the tile moved one cell only (a variant the properties
\* must tell from slide_caught)
slide_caught_one_step(g, w, h, x, y, dire, coord) ==
    IF coord > 1
    THEN [grid |-> [g EXCEPT ![(x + DX(dire, 1)) + (y + DY(dire, 1)) * w]
                                 = At(g, w, x, y),
                             ![x + y * w] = Zero],
          ret |-> 0, err |-> "none", merged_at |-> -1]
    ELSE [grid |-> g, ret |-> -1, err |-> "none", merged_at |-> -1]

\* slide_caught with a tile that cannot move reported as moved (a variant the
\* properties must tell from slide_caught)
slide_caught_reports_motion(g, w, h, x, y, dire, coord) ==
    IF coord > 1
    THEN [grid |-> [g EXCEPT ![(x + DX(dire, coord - 1)) + (y + DY(dire, coord - 1)) * w]
                                 = At(g, w, x, y),
                             ![x + y * w] = Zero],
          ret |-> 0, err |-> "none", merged_at |-> -1]
    ELSE [grid |-> g, ret |-> 0, err |-> "none", merged_at |-> -1]

\* slide_caught with the tile moved onto the cell whose probe failed (a
\* variant the properties must tell from slide_caught)
slide_caught_probed_cell(g, w, h, x, y, dire, coord) ==
    IF coord > 1
    THEN IF ~InRange(w, h, x + DX(dire, coord), y + DY(dire, coord))
         THEN [grid |-> g, ret |-> 0, err |-> "OutOfRange", merged_at |-> -1]
         ELSE [grid |-> [g EXCEPT ![(x + DX(dire, coord)) + (y + DY(dire, coord)) * w]
                                      = At(g, w, x, y),
                                  ![x + y * w] = Zero],
               ret |-> 0, err |-> "none", merged_at |-> -1]
    ELSE [grid |-> g, ret |-> -1, err |-> "none", merged_at |-> -1]

\* slide_caught with the tile copied to its new cell and left in the old one
\* (a variant the properties must tell from slide_caught)
slide_caught_copies_tile(g, w, h, x, y, dire, coord) ==
    IF coord > 1
    THEN IF ~InRange(w, h, x + DX(dire, coord - 1), y + DY(dire, coord - 1))
         THEN [grid |-> g, ret |-> 0, err |-> "OutOfRange", merged_at |-> -1]
         ELSE [grid |-> [g EXCEPT ![(x + DX(dire, coord - 1)) + (y + DY(dire, coord - 1)) * w]
                                      = At(g, w, x, y)],
               ret |-> 0, err |-> "none", merged_at |-> -1]
    ELSE [grid |-> g, ret |-> -1, err |-> "none", merged_at |-> -1]

\* the catch block: the probe at distance coord failed or was blocked; its own
\* __get_dire(x, y, dire, coord - 1) is outside any try block
slide_caught(g, w, h, x, y, dire, coord) ==
    IF coord > 1
    THEN IF ~InRange(w, h, x + DX(dire, coord - 1), y + DY(dire, coord - 1))
         THEN [grid |-> g, ret |-> 0, err |-> "OutOfRange", merged_at |-> -1]
         ELSE [grid |-> [g EXCEPT ![(x + DX(dire, coord - 1)) + (y + DY(dire, coord - 1)) * w]
                                      = At(g, w, x, y),
                                  ![x + y * w] = Zero],
               ret |-> 0, err |-> "none", merged_at |-> -1]
    ELSE [grid |-> g, ret |-> -1, err |-> "none", merged_at |-> -1]

RECURSIVE slide_scan(_, _, _, _, _, _, _, _)
slide_scan(g, w, h, x, y, dire, skip_merge, coord) ==
    LET tx == x + DX(dire, coord)
        ty == y + DY(dire, coord)
    IN  IF ~InRange(w, h, tx, ty) THEN slide_caught(g, w, h, x, y, dire, coord)
        ELSE IF At(g, w, tx, ty) # Zero
             THEN IF skip_merge THEN slide_caught(g, w, h, x, y, dire, coord)
                  ELSE IF At(g, w, tx, ty) = At(g, w, x, y)
                       THEN [grid |-> [g EXCEPT ![tx + ty * w] = Dbl(At(g, w, tx, ty)),
                                                ![x + y * w] = Zero],
                             ret |-> ToInt(Dbl(At(g, w, tx, ty))),
                             err |-> "none", merged_at |-> tx + ty * w]
                       ELSE slide_caught(g, w, h, x, y, dire, coord)
             ELSE slide_scan(g, w, h, x, y, dire, skip_merge, coord + 1)

\* a variant of slide that merges equal tiles whatever skip_merge says
slide_ignores_skip_merge(g, w, h, x, y, dire, skip_merge) ==
    IF ~InRange(w, h, x, y)
    THEN [grid |-> g, ret |-> 0, err |-> "OutOfRange", merged_at |-> -1]
    ELSE IF At(g, w, x, y) = Zero
         THEN [grid |-> g, ret |-> -1, err |-> "none", merged_at |-> -1]
         ELSE slide_scan(g, w, h, x, y, dire, FALSE, 1)

slide(g, w, h, x, y, dire, skip_merge) ==
    IF ~InRange(w, h, x, y)
    THEN [grid |-> g, ret |-> 0, err |-> "OutOfRange", merged_at |-> -1]
    ELSE IF At(g, w, x, y) = Zero
         THEN [grid |-> g, ret |-> -1, err |-> "none", merged_at |-> -1]
         ELSE slide_scan(g, w, h, x, y, dire, skip_merge, 1)

(***************************************************************************)
(* Grid::only_merge and Grid::merge.  The k-th cell visited is CellX/CellY *)
(* (the loop nest of the direction's case); skip_merge is cleared when a   *)
(* line begins.  merges counts the calls of slide that doubled a cell and  *)
(* remerged tells whether one of them doubled a cell that an earlier call  *)
(* of the same move had doubled; gained is the sum of the values of the    *)
(* doubled cells (none of the three is a value of the program); err is the *)
(* exception that left a call of slide, which ends the loops.              *)
(***************************************************************************)
LineLen(w, h, dire) == IF dire \in {"UP", "DOWN"} THEN h ELSE w

CellX(w, h, dire, k) ==
    CASE dire = "UP"    -> k \div h
      [] dire = "DOWN"  -> k \div h
      [] dire = "RIGHT" -> w - 1 - (k % w)
      [] dire = "LEFT"  -> k % w

CellY(w, h, dire, k) ==
    CASE dire = "UP"    -> k % h
      [] dire = "DOWN"  -> h - 1 - (k % h)
      [] dire = "RIGHT" -> k \div w
      [] dire = "LEFT"  -> k \div w

\* a variant of the bookkeeping that counts only merges as motions
only_merge_next_merges_only(st, r, skip0) ==
    [k            |-> st.k + 1,
     grid         |-> r.grid,
     new_score    |-> IF r.ret > 0 THEN st.new_score + r.ret ELSE st.new_score,
     skip_merge   |-> IF r.ret > 0 THEN TRUE ELSE skip0,
     have_motions |-> st.have_motions \/ r.ret > 0,
     merged       |-> IF r.merged_at >= 0 THEN st.merged \cup {r.merged_at}
                                          ELSE st.merged,
     merges       |-> IF r.merged_at >= 0 THEN st.merges + 1 ELSE st.merges,
     remerged     |-> st.remerged \/ r.merged_at \in st.merged,
     gained       |-> IF r.merged_at >= 0 THEN Add(st.gained, r.grid[r.merged_at])
                                          ELSE st.gained,
     err          |-> r.err]

\* one iteration of the inner loop: the loop nest has visited st.k cells
only_merge_next(st, r, skip0) ==
    [k            |-> st.k + 1,
     grid         |-> r.grid,
     new_score    |-> IF r.ret > 0 THEN st.new_score + r.ret ELSE st.new_score,
     skip_merge   |-> IF r.ret > 0 THEN TRUE ELSE skip0,
     have_motions |-> st.have_motions \/ r.ret >= 0,
     merged       |-> IF r.merged_at >= 0 THEN st.merged \cup {r.merged_at}
                                          ELSE st.merged,
     merges       |-> IF r.merged_at >= 0 THEN st.merges + 1 ELSE st.merges,
     remerged     |-> st.remerged \/ r.merged_at \in st.merged,
     gained       |-> IF r.merged_at >= 0 THEN Add(st.gained, r.grid[r.merged_at])
                                          ELSE st.gained,
     err          |-> r.err]

only_merge_step(st, w, h, dire) ==
    LET skip0 == IF st.k % LineLen(w, h, dire) = 0 THEN FALSE ELSE st.skip_merge
    IN  CHOOSE nx \in {only_merge_next(st, r, skip0) :
                         r \in {slide(st.grid, w, h, CellX(w, h, dire, st.k),
                                      CellY(w, h, dire, st.k), dire, skip0)}} : TRUE

\* the loop nest from its st.k-th iteration on (each state of the loop is bound
\* as a value, so that it is computed once)
RECURSIVE only_merge_from(_, _, _, _)
only_merge_from(st, w, h, dire) ==
    IF st.k >= w * h \/ st.err # "none" THEN st
    ELSE CHOOSE end \in {only_merge_from(nx, w, h, dire) :
                           nx \in {only_merge_step(st, w, h, dire)}} : TRUE

\* only_merge returning the score gained also when nothing moved (a variant the
\* properties must tell from only_merge)
only_merge_no_sentinel(g, w, h, dire) ==
    CHOOSE res \in
        {[grid |-> st.grid,
          ret |-> st.new_score,
          have_motions |-> st.have_motions,
          merges |-> st.merges, remerged |-> st.remerged,
          gained |-> st.gained, err |-> st.err] :
            st \in {only_merge_from([k |-> 0, grid |-> g, new_score |-> 0,
                                     skip_merge |-> FALSE, have_motions |-> FALSE,
                                     merged |-> {}, merges |-> 0, remerged |-> FALSE,
                                     gained |-> Zero, err |-> "none"],
                                    w, h, dire)}} : TRUE

only_merge(g, w, h, dire) ==
    CHOOSE res \in
        {[grid |-> st.grid,
          ret |-> IF st.err # "none" THEN 0
                  ELSE IF st.have_motions THEN st.new_score ELSE -1,
          have_motions |-> st.have_motions,
          merges |-> st.merges, remerged |-> st.remerged,
          gained |-> st.gained, err |-> st.err] :
            st \in {only_merge_from([k |-> 0, grid |-> g, new_score |-> 0,
                                     skip_merge |-> FALSE, have_motions |-> FALSE,
                                     merged |-> {}, merges |-> 0, remerged |-> FALSE,
                                     gained |-> Zero, err |-> "none"],
                                    w, h, dire)}} : TRUE

\* Grid::merge: the score a move gained is added when it is positive
merge(g, w, h, score, dire) ==
    CHOOSE res \in
        {[grid |-> m.grid, ret |-> m.ret, have_motions |-> m.have_motions,
          score |-> IF m.err = "none" /\ m.ret > 0 THEN score + m.ret ELSE score,
          merges |-> m.merges, remerged |-> m.remerged, gained |-> m.gained,
          err |-> m.err] :
            m \in {only_merge(g, w, h, dire)}} : TRUE

(***************************************************************************)
(* Grid::generate and Grid::generate_randomly.  pd is the size of the      *)
(* range of the function-static pos_dist, which is constructed by the      *)
(* first call of generate in the process; p is the index it yields in the  *)
(* iteration that ends the loop (an index of an occupied cell is drawn     *)
(* again).  An index p >= w * h names memory behind the grid's storage;    *)
(* reading it is undefined: when it reads as non-zero the index is drawn   *)
(* again, when it reads as zero the value is written there and the call    *)
(* returns with the grid as it was (err "OutOfBounds").  When the board is *)
(* not full and no index of the range ends the loop, the call does not     *)
(* return.                                                                 *)
(***************************************************************************)
\* the range pos_dist has during a call on a w x h grid
PosRange(pd, w, h) == IF pd = 0 THEN w * h ELSE pd

\* the loop of generate ends when index p is drawn
GenEnds(g, w, h, p) ==
    IF is_full(g, w, h) \/ p >= w * h THEN TRUE ELSE g[p] = Zero

\* the loop of generate never ends: the board has an empty cell, but none at
\* an index pos_dist yields
GenLoops(g, w, h, pd) ==
    ~is_full(g, w, h) /\ \A p \in 0 .. pd - 1 : ~GenEnds(g, w, h, p)

\* generate without the is_full test and writing whatever the cell holds (a
\* variant the properties must tell from generate)
generate_overwrites(g, w, h, targetval, p) ==
    IF p >= w * h THEN [grid |-> g, ret |-> FALSE, err |-> "OutOfBounds"]
    ELSE [grid |-> [g EXCEPT ![p] = targetval], ret |-> FALSE, err |-> "none"]

generate(g, w, h, targetval, p) ==
    IF is_full(g, w, h) THEN [grid |-> g, ret |-> TRUE, err |-> "none"]
    ELSE IF p >= w * h THEN [grid |-> g, ret |-> FALSE, err |-> "OutOfBounds"]
    ELSE [grid |-> [g EXCEPT ![p] = targetval], ret |-> FALSE, err |-> "none"]

\* RandomTile with a draw hitting when it is not 0 (a variant the properties
\* must tell from RandomTile)
RandomTile_hits_on_nonzero(d1, d2, d3) ==
    IF d1 # 0
    THEN IF d2 # 0 THEN IF d3 # 0 THEN W(16) ELSE W(8)
                   ELSE W(4)
    ELSE W(2)

\* the value generate_randomly passes on, from its draws of false_1i4
RandomTile(d1, d2, d3) ==
    IF d1 = 0
    THEN IF d2 = 0 THEN IF d3 = 0 THEN W(16) ELSE W(8)
                   ELSE W(4)
    ELSE W(2)

\* the values false_1i4 yields
Draws == 0 .. 3

\* the values generate_randomly passes on, over all draws
RandomTiles ==
    {RandomTile(d1, d2, d3) : d1 \in Draws, d2 \in Draws, d3 \in Draws}

(***************************************************************************)
(* The Grid object driven call by call.  call records the call that has    *)
(* just been made: its arguments, what it returned (ret: an integer        *)
(* result, flag: a boolean result or *have_motions_out, err: the exception *)
(* that left it) and the object as it was when the call began.             *)
(***************************************************************************)
NoCall ==
    [op |-> "none", dire |-> "NONE", x |-> 0, y |-> 0, skip |-> FALSE,
     val |-> Zero, ret |-> 0, flag |-> FALSE, err |-> "none",
     merges |-> 0, remerged |-> FALSE, gained |-> Zero,
     w0 |-> 0, h0 |-> 0, grid0 |-> Blank(0, 0), score0 |-> 0]

\* the call record of a call made now
Called(op, dire, x, y, skip, val, ret, flag, err, merges, remerged, gained) ==
    [op |-> op, dire |-> dire, x |-> x, y |-> y, skip |-> skip,
     val |-> val, ret |-> ret, flag |-> flag, err |-> err,
     merges |-> merges, remerged |-> remerged, gained |-> gained,
     w0 |-> mWidth, h0 |-> mHeight, grid0 |-> mGrid, score0 |-> mScore]

\* the dimensions explored: every grid of at most MaxArea cells, and 4x4
Dims == {d \in (1 .. MaxW) \X (1 .. MaxH) : d[1] * d[2] <= MaxArea} \cup {<<4, 4>>}

\* the tiles put() writes; the tiles 2^30 and 2^31 are written to the grids
\* of fewer than MaxArea cells
PutVals == {W(2^e) : e \in 1 .. MaxExp} \cup {BigTile, Dbl(BigTile)}

Tiles(g) == Cardinality({i \in DOMAIN g : g[i] # Zero})

\* no cell holds a value that only a merge produces
Fresh(g) == \A i \in DOMAIN g : g[i] \in PutVals \cup {Zero}

Init ==
    /\ \E d \in Dims :
          /\ mWidth = d[1]
          /\ mHeight = d[2]
          /\ mGrid = Blank(d[1], d[2])
    /\ config_width = 0
    /\ config_height = 0
    /\ mScore = 0
    /\ pos_dist = 0
    /\ call = NoCall
    /\ screen = "none"
    /\ key = "none"
    /\ gen = FALSE
    /\ proc = "none"
    /\ ggScore = 0
    /\ play = [script |-> -1, free |-> 0]
    /\ NoMines
    /\ NoSnake

\* Grid::reset(int, int)
Reset(w, h) ==
    /\ call.op = "none"
    /\ mWidth' = w
    /\ mHeight' = h
    /\ mGrid' = Blank(w, h)
    /\ mScore' = 0
    /\ call' = Called("reset", "NONE", w, h, FALSE, Zero, 0, FALSE, "none", 0, FALSE,
                     Zero)
    /\ UNCHANGED <<pos_dist, gameVars>>

\* Grid::put(x, y, val), also with coordinates outside the grid
Put(x, y, v) ==
    /\ call.op = "none"
    /\ mScore <= MaxScore
    /\ Fresh(mGrid)
    /\ InRange(mWidth, mHeight, x, y) \/ v = W(2)
    /\ v \in {BigTile, Dbl(BigTile)} => mWidth * mHeight < MaxArea
    /\ \E r \in {put(mGrid, mWidth, mHeight, x, y, v)} :
           /\ mWidth * mHeight <= MaxArea \/ Tiles(r.grid) <= SparseTiles
           /\ mGrid' = r.grid
           /\ call' = Called("put", "NONE", x, y, FALSE, v, 0, FALSE, r.err, 0, FALSE,
                             Zero)
    /\ UNCHANGED <<mWidth, mHeight, mScore, pos_dist, gameVars>>

\* Grid::get(x, y), also with coordinates outside the grid
Get(x, y) ==
    /\ call.op = "none"
    /\ \E r \in {get(mGrid, mWidth, mHeight, x, y)} :
           call' = Called("get", "NONE", x, y, FALSE, r.val, 0, FALSE, r.err, 0, FALSE,
                          Zero)
    /\ UNCHANGED <<gridVars, gameVars>>

\* Grid::merge(dire, &have_motions)
Merge(dire) ==
    /\ call.op = "none"
    /\ mScore <= MaxScore
    /\ \E r \in {merge(mGrid, mWidth, mHeight, mScore, dire)} :
           /\ mGrid' = r.grid
           /\ mScore' = r.score
           /\ call' = Called("merge", dire, 0, 0, FALSE, Zero, r.ret, r.have_motions,
                             r.err, r.merges, r.remerged, r.gained)
    /\ UNCHANGED <<mWidth, mHeight, pos_dist, gameVars>>

\* Grid::only_merge(dire, &have_motions)
OnlyMerge(dire) ==
    /\ call.op = "none"
    /\ mScore <= MaxScore
    /\ \E r \in {only_merge(mGrid, mWidth, mHeight, dire)} :
           /\ mGrid' = r.grid
           /\ call' = Called("only_merge", dire, 0, 0, FALSE, Zero, r.ret,
                             r.have_motions, r.err, r.merges, r.remerged, r.gained)
    /\ UNCHANGED <<mWidth, mHeight, mScore, pos_dist, gameVars>>

\* Grid::slide(x, y, dire, skip_merge)
Slide(x, y, dire, skip) ==
    /\ call.op = "none"
    /\ mScore <= MaxScore
    /\ \E r \in {slide(mGrid, mWidth, mHeight, x, y, dire, skip)} :
           /\ mGrid' = r.grid
           /\ call' = Called("slide", dire, x, y, skip, Zero, r.ret, FALSE, r.err,
                             IF r.merged_at >= 0 THEN 1 ELSE 0, FALSE,
                             IF r.merged_at >= 0 THEN r.grid[r.merged_at] ELSE Zero)
    /\ UNCHANGED <<mWidth, mHeight, mScore, pos_dist, gameVars>>

\* Grid::is_fail()
IsFail ==
    /\ call.op = "none"
    /\ \E r \in {is_fail(mGrid, mWidth, mHeight)} :
           call' = Called("is_fail", "NONE", 0, 0, FALSE, Zero, 0, r = "true",
                          IF r = "OutOfRange" THEN r ELSE "none", 0, FALSE, Zero)
    /\ UNCHANGED <<gridVars, gameVars>>

\* Grid::is_full()
IsFull ==
    /\ call.op = "none"
    /\ call' = Called("is_full", "NONE", 0, 0, FALSE, Zero, 0,
                      is_full(mGrid, mWidth, mHeight), "none", 0, FALSE, Zero)
    /\ UNCHANGED <<gridVars, gameVars>>

\* the caller takes the result; the object is ready for the next call
Return ==
    /\ call.op # "none"
    /\ call.err # "NoReturn"
    /\ call' = NoCall
    /\ UNCHANGED <<gridVars, gameVars>>

Next ==
    \/ \E d \in Dims : Reset(d[1], d[2])
    \/ \E x \in -1 .. mWidth, y \in -1 .. mHeight, v \in PutVals \cup {Zero} : Put(x, y, v)
    \/ \E x \in -1 .. mWidth, y \in -1 .. mHeight : Get(x, y)
    \/ \E dire \in DIRECTION : Merge(dire)
    \/ \E dire \in DIRECTION : OnlyMerge(dire)
    \/ \E x \in 0 .. mWidth - 1, y \in 0 .. mHeight - 1, dire \in DIRECTION,
          skip \in BOOLEAN : Slide(x, y, dire, skip)
    \/ IsFail
    \/ IsFull
    \/ Return

Spec == Init /\ [][Next]_vars

(***************************************************************************)
(* The Grid driven by spawns and merges: reset, generate,                  *)
(* generate_randomly and merge, on the grids of at most GenArea cells.     *)
(* The static pos_dist is shared by every Grid of the process, so a Grid   *)
(* constructed later finds the range the first call of generate gave it.   *)
(* In the call record of a spawn, val is the value passed to generate, x   *)
(* the index that ended the loop (-1: none was drawn), flag the result.    *)
(***************************************************************************)
\* most cells of a grid driven by spawns
GenArea == 3

GenDims == {d \in Dims : d[1] * d[2] <= GenArea}

GenInit ==
    /\ Init
    /\ <<mWidth, mHeight>> \in GenDims

\* Grid::Grid(w, h): a further Grid is constructed and followed from now on
Construct(w, h) ==
    /\ call.op = "none"
    /\ mWidth' = w
    /\ mHeight' = h
    /\ mGrid' = Blank(w, h)
    /\ mScore' = 0
    /\ call' = Called("Grid", "NONE", w, h, FALSE, Zero, 0, FALSE, "none", 0, FALSE,
                     Zero)
    /\ UNCHANGED <<pos_dist, gameVars>>

\* a call of generate(targetval), made by op, whose loop ends at index p
Spawn(op, targetval, p) ==
    /\ call.op = "none"
    /\ \E pd \in {PosRange(pos_dist, mWidth, mHeight)} :
          /\ pos_dist' = pd
          /\ IF GenLoops(mGrid, mWidth, mHeight, pd)
             THEN /\ p = 0
                  /\ mGrid' = mGrid
                  /\ call' = Called(op, "NONE", -1, 0, FALSE, targetval, 0, FALSE,
                                   "NoReturn", 0, FALSE, Zero)
             ELSE /\ p \in 0 .. pd - 1
                  /\ GenEnds(mGrid, mWidth, mHeight, p)
                  /\ is_full(mGrid, mWidth, mHeight) => p = 0
                  /\ \E r \in {generate(mGrid, mWidth, mHeight, targetval, p)} :
                        /\ mGrid' = r.grid
                        /\ call' = Called(op, "NONE", IF r.ret THEN -1 ELSE p, 0,
                                         FALSE, targetval, 0, r.ret, r.err, 0,
                                         FALSE, Zero)
    /\ UNCHANGED <<mWidth, mHeight, mScore, gameVars>>

\* Grid::generate(2)
Generate(p) == Spawn("generate", W(2), p)

\* Grid::generate_randomly(), its draws of false_1i4 being d1, d2, d3
GenerateRandomly(d1, d2, d3, p) ==
    Spawn("generate_randomly", RandomTile(d1, d2, d3), p)

GenNext ==
    \/ \E d \in GenDims : Reset(d[1], d[2])
    \/ \E d \in GenDims : Construct(d[1], d[2])
    \/ \E p \in 0 .. GenArea - 1 : Generate(p)
    \/ \E d1 \in Draws, d2 \in Draws, d3 \in Draws, p \in 0 .. GenArea - 1 :
          GenerateRandomly(d1, d2, d3, p)
    \/ \E dire \in DIRECTION : Merge(dire)
    \/ Return

SpecGen == GenInit /\ [][GenNext]_vars

(***************************************************************************)
(* The game: Game::run, render_title, render_game and render_gameover      *)
(* around the Game's Grid.  screen is the function the process is in, key  *)
(* the key it handled last, gen the local of that name in the iteration of *)
(* render_game that handled it, proc what became of the process, ggScore   *)
(* the score the last GameOver carried.                                    *)
(*                                                                         *)
(* The sessions explored are those of a recorded play (Script: the key,    *)
(* the tile spawned and the index it was put at, move by move) and those   *)
(* that leave it for at most MaxFree moves: play.script is the number of   *)
(* moves of the record the session has followed (-1 once it has left it)   *)
(* and play.free the number of moves made off the record.                  *)
(***************************************************************************)
\* the defaults of Game::Game
default_width == 4
default_height == 6

\* moves explored off the recorded play
MaxFree == 1

\* the grids a Game is constructed with: the default one and the small
\* square ones
GameDims ==
    {<<default_width, default_height>>} \cup {<<n, n>> : n \in 1 .. MaxH}

\* moves explored off the recorded play: on a grid of at most MaxArea cells,
\* as many as fill the grid
FreeMoves ==
    IF config_width * config_height <= MaxArea THEN MaxArea - 1 ELSE MaxFree

\* the record begins with the first tile in cell (0, 3)
ScriptStart == 0 + 3 * default_width

Script ==
    << <<"UP", 4, 6>>, <<"RIGHT", 2, 13>>, <<"RIGHT", 2, 8>>, <<"UP", 8, 23>>,
       <<"DOWN", 2, 0>>, <<"RIGHT", 8, 4>>, <<"RIGHT", 4, 4>>, <<"RIGHT", 16, 1>>,
       <<"UP", 16, 10>>, <<"LEFT", 8, 13>>, <<"RIGHT", 4, 20>>, <<"LEFT", 4, 18>>,
       <<"RIGHT", 8, 17>>, <<"DOWN", 8, 9>>, <<"DOWN", 4, 5>>, <<"DOWN", 2, 8>>,
       <<"DOWN", 4, 16>>, <<"LEFT", 4, 2>>, <<"DOWN", 2, 7>>, <<"DOWN", 16, 3>>,
       <<"LEFT", 4, 3>>, <<"DOWN", 2, 3>>, <<"DOWN", 8, 3>> >>

\* a spawn off the recorded play that is explored: on a grid of more than
\* MaxArea cells, every spawn of the first move off the record, and of a later
\* one the tile 2 in the first empty cell
FreeSpawn(m, tile, p) ==
    /\ play.free < FreeMoves
    /\ \/ play.free = 0
       \/ config_width * config_height <= MaxArea
       \/ tile = W(2) /\ \A q \in 0 .. p - 1 : m.grid[q] # Zero

\* the move continues the recorded play
OnScript(k, tile, p) ==
    /\ config_width = default_width
    /\ config_height = default_height
    /\ play.script >= 0
    /\ play.script < Len(Script)
    /\ Script[play.script + 1] = <<k, ToInt(tile), p>>

\* the bookkeeping of the exploration for a move
Played(k, tile, p) ==
    IF OnScript(k, tile, p) THEN [script |-> play.script + 1, free |-> play.free]
                            ELSE [script |-> -1, free |-> play.free + 1]

GameInit ==
    /\ \E d \in GameDims : config_width = d[1] /\ config_height = d[2]
    /\ mWidth = config_width
    /\ mHeight = config_height
    /\ mGrid = Blank(config_width, config_height)
    /\ mScore = 0
    /\ pos_dist = 0
    /\ call = NoCall
    /\ screen = "title"
    /\ key = "none"
    /\ gen = FALSE
    /\ proc = "running"
    /\ ggScore = 0
    /\ play = [script |-> -1, free |-> 0]
    /\ NoMines
    /\ NoSnake

\* render_title, key A: render_game begins with reset and generate(2)
StartGame(p) ==
    /\ screen = "title"
    /\ proc = "running"
    /\ p \in 0 .. PosRange(pos_dist, config_width, config_height) - 1
    /\ GenEnds(Blank(config_width, config_height), config_width, config_height, p)
    /\ mWidth' = config_width
    /\ mHeight' = config_height
    /\ mGrid' = generate(Blank(config_width, config_height), config_width,
                         config_height, W(2), p).grid
    /\ mScore' = 0
    /\ pos_dist' = PosRange(pos_dist, config_width, config_height)
    /\ screen' = "game"
    /\ key' = "a"
    /\ gen' = FALSE
    /\ play' = [script |-> IF /\ p = ScriptStart
                               /\ config_width = default_width
                               /\ config_height = default_height
                            THEN 0 ELSE -1,
                 free |-> 0]
    /\ UNCHANGED <<call, config_width, config_height, proc, ggScore>>
    /\ UNCHANGED <<minesVars, snakeVars>>

\* render_title, key Q: stop() throws GameStop, which main catches
TitleQuit ==
    /\ screen = "title"
    /\ proc = "running"
    /\ screen' = "ended"
    /\ proc' = "GameStop"
    /\ key' = "q"
    /\ UNCHANGED <<gridVars, call, config_width, config_height, gen, ggScore,
                   play>>
    /\ UNCHANGED <<minesVars, snakeVars>>

\* GameSpawn with no tile placed (a variant the properties must tell from
\* GameSpawn)
GameSpawn_places_nothing(k, m, tile, p) ==
    /\ p \in 0 .. pos_dist - 1
    /\ GenEnds(m.grid, mWidth, mHeight, p)
    /\ OnScript(k, tile, p) \/ FreeSpawn(m, tile, p)
    /\ mGrid' = m.grid
    /\ mScore' = m.score
    /\ gen' = TRUE
    /\ play' = Played(k, tile, p)
    /\ UNCHANGED <<screen, proc, ggScore>>

\* the spawn of an iteration whose merge m reported motion, and the is_fail
\* test that follows it
GameSpawn(k, m, tile, p) ==
    /\ p \in 0 .. pos_dist - 1
    /\ GenEnds(m.grid, mWidth, mHeight, p)
    /\ OnScript(k, tile, p) \/ FreeSpawn(m, tile, p)
    /\ \E s \in {generate(m.grid, mWidth, mHeight, tile, p)} :
       \E f \in {is_fail(s.grid, mWidth, mHeight)} :
          /\ mGrid' = s.grid
          /\ mScore' = m.score
          /\ gen' = TRUE
          /\ play' = Played(k, tile, p)
          /\ screen' = CASE f = "true"       -> "gameover"
                         [] f = "OutOfRange" -> "ended"
                         [] OTHER            -> "game"
          /\ proc' = IF f = "OutOfRange" THEN "out_of_range" ELSE proc
          /\ ggScore' = IF f = "true" THEN m.score ELSE ggScore

\* one iteration of render_game's loop on a direction key
GameMove(k) ==
    /\ screen = "game"
    /\ proc = "running"
    /\ \E m \in {merge(mGrid, mWidth, mHeight, mScore, k)} :
          IF m.err # "none"
          THEN /\ mGrid' = m.grid
               /\ screen' = "ended"
               /\ proc' = "out_of_range"
               /\ gen' = FALSE
               /\ UNCHANGED <<mScore, ggScore, play>>
          ELSE IF m.have_motions
          THEN \E tile \in RandomTiles, p \in 0 .. mWidth * mHeight - 1 :
                  GameSpawn(k, m, tile, p)
          ELSE /\ play.free < FreeMoves
               /\ gen' = FALSE
               /\ play' = [script |-> -1, free |-> play.free + 1]
               /\ mGrid' = m.grid
               /\ mScore' = m.score
               /\ UNCHANGED <<screen, proc, ggScore>>
    /\ key' = k
    /\ UNCHANGED <<mWidth, mHeight, pos_dist, call, config_width, config_height>>
    /\ UNCHANGED <<minesVars, snakeVars>>

\* one iteration of render_game's loop on Q, answered Y: render_game returns
GameQuit ==
    /\ screen = "game"
    /\ proc = "running"
    /\ screen' = "title"
    /\ key' = "q"
    /\ gen' = FALSE
    /\ UNCHANGED <<gridVars, call, config_width, config_height, proc, ggScore,
                   play>>
    /\ UNCHANGED <<minesVars, snakeVars>>

\* render_gameover, key Q: the handler of GameOver in run ends, the caught
\* exception ceases to exist, and run's loop shows the title
GameOverQuit ==
    /\ screen = "gameover"
    /\ proc = "running"
    /\ screen' = "title"
    /\ key' = "q"
    /\ ggScore' = 0
    /\ UNCHANGED <<gridVars, call, config_width, config_height, gen, proc,
                   play>>
    /\ UNCHANGED <<minesVars, snakeVars>>

GameNext ==
    \/ \E p \in 0 .. config_width * config_height - 1 : StartGame(p)
    \/ TitleQuit
    \/ \E k \in DIRECTION : GameMove(k)
    \/ GameQuit
    \/ GameOverQuit

SpecGame == GameInit /\ [][GameNext]_vars

(***************************************************************************)
(* The Grid under both of its uses: called through its public interface by *)
(* any client, on any dimensions (Init, Next), or owned by a Game, which   *)
(* calls reset(config_width, config_height) and generate(2) at the start   *)
(* of a session (GameInit, GameNext).  A behaviour follows one of the two. *)
(***************************************************************************)
\* Grid::reset(), called by the client of a Grid that no Game owns
ResetKeep ==
    /\ proc = "none"
    /\ call.op = "none"
    /\ mGrid' = Blank(mWidth, mHeight)
    /\ mScore' = 0
    /\ call' = Called("reset()", "NONE", 0, 0, FALSE, Zero, 0, FALSE, "none", 0, FALSE,
                     Zero)
    /\ UNCHANGED <<mWidth, mHeight, pos_dist, gameVars>>

\* a call of the public interface of a Grid that no Game owns
GridCall ==
    /\ proc = "none"
    /\ Next

GridUseInit == Init \/ GameInit

GridUseNext ==
    \/ GridCall
    \/ ResetKeep
    \/ GameNext

SpecGridUse == GridUseInit /\ [][GridUseNext]_vars

(***************************************************************************)
(* Vocabulary of the properties.  A line of a move is a row (LEFT, RIGHT)  *)
(* or a column (UP, DOWN); its cells are numbered from the edge the move   *)
(* is directed to, cell 0 being the edge cell.                             *)
(***************************************************************************)
CalledMerge == call.op \in {"merge", "only_merge"}

Full(g) == \A i \in DOMAIN g : g[i] # Zero

AllZero(g) == \A i \in DOMAIN g : g[i] = Zero

\* no two cells that share a side hold the same value
NoEqualNeighbours(g, w, h) ==
    \A x \in 0 .. w - 1, y \in 0 .. h - 1 :
        /\ x + 1 < w => g[x + y * w] # g[(x + 1) + y * w]
        /\ y + 1 < h => g[x + y * w] # g[x + (y + 1) * w]

NLines(w, h, dire) == IF dire \in {"LEFT", "RIGHT"} THEN h ELSE w

Along(w, h, dire) == IF dire \in {"LEFT", "RIGHT"} THEN w ELSE h

\* the index in the storage of cell i of line l
LineIdx(w, h, dire, l, i) ==
    CASE dire = "LEFT"  -> i + l * w
      [] dire = "RIGHT" -> (w - 1 - i) + l * w
      [] dire = "UP"    -> l + i * w
      [] dire = "DOWN"  -> l + (h - 1 - i) * w

\* line l, from the edge cell on, as a sequence
Line(g, w, h, dire, l) ==
    [i \in 1 .. Along(w, h, dire) |-> g[LineIdx(w, h, dire, l, i - 1)]]

\* the sequence of storage values of a sequence of small numbers
Ws(s) == [i \in 1 .. Len(s) |-> W(s[i])]

\* the line before and after the call that call records
Line0(l) == Line(call.grid0, call.w0, call.h0, call.dire, l)
Line1(l) == Line(mGrid, mWidth, mHeight, call.dire, l)

CallLines == 0 .. NLines(call.w0, call.h0, call.dire) - 1

\* the cells of a line that hold a tile
TilesAt(ln) == {i \in 1 .. Len(ln) : ln[i] # Zero}

(***************************************************************************)
(* C1 (as claimed): is_fail on a full board without two equal neighbouring *)
(* cells returns true, on a grid of any width and height, and raises no    *)
(* out-of-range error.                                                     *)
(***************************************************************************)
C1_FullBoardWithoutPairIsTerminal ==
    (/\ call.op = "is_fail"
     /\ Full(mGrid)
     /\ NoEqualNeighbours(mGrid, mWidth, mHeight))
    => (call.err = "none" /\ call.flag)

(***************************************************************************)
(* C2 (as claimed): is_fail on a full board that holds two equal           *)
(* neighbouring cells, wherever they lie, returns false, on a grid of any  *)
(* width and height.                                                       *)
(***************************************************************************)
C2_FullBoardWithPairIsNotTerminal ==
    (/\ call.op = "is_fail"
     /\ Full(mGrid)
     /\ ~NoEqualNeighbours(mGrid, mWidth, mHeight))
    => (call.err = "none" /\ ~call.flag)

(***************************************************************************)
(* C3 (as claimed): in the game on the default 4x6 grid, when the spawn    *)
(* after a move leaves the board full without two equal neighbouring       *)
(* cells, the session ends on the game-over screen with the current score; *)
(* the process is not ended by an out-of-range error.                      *)
(***************************************************************************)
C3_TerminalBoardEndsInGameOver ==
    (/\ config_width = default_width
     /\ config_height = default_height
     /\ key \in DIRECTION
     /\ gen
     /\ Full(mGrid)
     /\ NoEqualNeighbours(mGrid, mWidth, mHeight))
    => (screen = "gameover" /\ ggScore = mScore /\ proc = "running")

(***************************************************************************)
(* C4 (as claimed): on a grid of width 4, a row [2,2,2,2] merged LEFT is   *)
(* [4,4,0,0] afterwards.                                                   *)
(***************************************************************************)
C4_FourEqualTilesMergePairwise ==
    (CalledMerge /\ call.dire = "LEFT" /\ call.w0 = 4)
    => \A l \in CallLines :
          Line0(l) = Ws(<<2, 2, 2, 2>>) => Line1(l) = Ws(<<4, 4, 0, 0>>)

(***************************************************************************)
(* C5 (as claimed): a tile produced by a merge is not merged again in the  *)
(* same move; on a grid of width 3, a row [2,2,2] merged LEFT is [4,2,0]   *)
(* afterwards.                                                             *)
(***************************************************************************)
C5_MergedTileIsNotMergedAgain ==
    CalledMerge
    => /\ ~call.remerged
       /\ (call.dire = "LEFT" /\ call.w0 = 3)
          => \A l \in CallLines :
                Line0(l) = Ws(<<2, 2, 2>>) => Line1(l) = Ws(<<4, 2, 0>>)

(***************************************************************************)
(* C6 (as claimed): merge and only_merge of a grid whose cells are all     *)
(* zero leave the grid unchanged, report no motion and return 0.           *)
(***************************************************************************)
C6_EmptyGridMergeReturnsZero ==
    (CalledMerge /\ AllZero(call.grid0))
    => (mGrid = call.grid0 /\ ~call.flag /\ call.ret = 0)

(***************************************************************************)
(* C6 (amended): merge and only_merge of a grid whose cells are all zero   *)
(* leave the grid unchanged, report no motion, return -1 (the value that   *)
(* stands for "no motion") and leave the running score unchanged.          *)
(***************************************************************************)
C6_EmptyGridMergeIsNoOp ==
    (CalledMerge /\ AllZero(call.grid0))
    => (mGrid = call.grid0 /\ ~call.flag /\ call.ret = -1 /\ mScore = call.score0)

C6_Witness ==
    /\ call.op = "merge"
    /\ call.dire = "UP"
    /\ call.w0 = 2 /\ call.h0 = 2
    /\ AllZero(call.grid0)
    /\ call.ret = -1

(***************************************************************************)
(* C7 (as claimed): a line whose only tiles are two equal tiles in         *)
(* neighbouring cells holds after the move one tile of the double value in *)
(* its edge cell and zero elsewhere; the score the move returns is that    *)
(* double value (when no other line holds a tile).                         *)
(***************************************************************************)
C7_PairMergesIntoOneTile ==
    CalledMerge
    => \A l \in CallLines :
          \A i \in 1 .. Len(Line0(l)) - 1 :
             (/\ TilesAt(Line0(l)) = {i, i + 1}
              /\ Line0(l)[i] = Line0(l)[i + 1])
             => /\ Line1(l) = [j \in 1 .. Len(Line0(l)) |->
                                 IF j = 1 THEN Dbl(Line0(l)[i]) ELSE Zero]
                /\ Tiles(call.grid0) = 2
                   => (call.ret >= 0 /\ W(call.ret) = Dbl(Line0(l)[i]))

(***************************************************************************)
(* C8 (as claimed): merge adds to the running score exactly the score the  *)
(* move gained (the value it returns) when a cell moved or merged, and     *)
(* leaves the running score unchanged when no cell moved; a 4-wide row     *)
(* [2,2,0,0] merged LEFT becomes [4,0,0,0] and the score grows by 4.       *)
(***************************************************************************)
C8_ScoreGrowsByScoreGained ==
    call.op = "merge"
    => /\ mGrid # call.grid0 => (call.ret >= 0 /\ mScore = call.score0 + call.ret)
       /\ mGrid = call.grid0 => mScore = call.score0
       /\ (call.dire = "LEFT" /\ call.w0 = 4 /\ call.h0 = 1
           /\ Line0(0) = Ws(<<2, 2, 0, 0>>))
          => (Line1(0) = Ws(<<4, 0, 0, 0>>) /\ mScore = call.score0 + 4)

(***************************************************************************)
(* C9: a tile with only empty cells (at least one) between itself and the  *)
(* edge the move is directed to moves to the edge cell of its line.        *)
(* slide on it puts its value in the edge cell, empties its cell, changes  *)
(* nothing else and returns 0; a move reports motion, and fills the edge   *)
(* cell of every line whose first tile was off the edge; a move of a grid  *)
(* with one tile, off the edge, leaves that tile in the edge cell of its   *)
(* line and nothing else, returns 0 and reports motion (on a 4x4 grid a    *)
(* tile 2 at (0,0) merged RIGHT ends at (3,0)).                            *)
(***************************************************************************)
\* the number of cells between cell (x, y) and the edge in direction dire
CellsToEdge(w, h, x, y, dire) ==
    CASE dire = "LEFT"  -> x
      [] dire = "RIGHT" -> w - 1 - x
      [] dire = "UP"    -> y
      [] dire = "DOWN"  -> h - 1 - y

\* the index of the cell n steps from (x, y) in direction dire
StepIdx(w, x, y, dire, n) ==
    CASE dire = "LEFT"  -> (x - n) + y * w
      [] dire = "RIGHT" -> (x + n) + y * w
      [] dire = "UP"    -> x + (y - n) * w
      [] dire = "DOWN"  -> x + (y + n) * w

C9_SlideCase ==
    LET n == CellsToEdge(call.w0, call.h0, call.x, call.y, call.dire)
        src == call.x + call.y * call.w0
    IN  /\ call.op = "slide"
        /\ call.grid0[src] # Zero
        /\ n >= 1
        /\ \A j \in 1 .. n :
              call.grid0[StepIdx(call.w0, call.x, call.y, call.dire, j)] = Zero

\* the lines whose first tile, seen from the edge, is not in the edge cell
LinesOffEdge ==
    {l \in CallLines : TilesAt(Line0(l)) # {} /\ Line0(l)[1] = Zero}

C9_TileMovesToEdge ==
    /\ C9_SlideCase
       => LET n == CellsToEdge(call.w0, call.h0, call.x, call.y, call.dire)
              src == call.x + call.y * call.w0
              edge == StepIdx(call.w0, call.x, call.y, call.dire, n)
          IN  /\ mGrid = [call.grid0 EXCEPT ![edge] = call.grid0[src], ![src] = Zero]
              /\ call.ret = 0
    /\ CalledMerge
       => /\ LinesOffEdge # {} => (call.flag /\ call.ret >= 0)
          /\ \A l \in LinesOffEdge : Line1(l)[1] # Zero
          /\ \A l \in LinesOffEdge :
                Tiles(call.grid0) = 1
                => /\ \E i \in TilesAt(Line0(l)) :
                         Line1(l) = [j \in 1 .. Len(Line0(l)) |->
                                       IF j = 1 THEN Line0(l)[i] ELSE Zero]
                   /\ Tiles(mGrid) = 1
                   /\ call.ret = 0
                   /\ mScore = call.score0

C9_Witness ==
    /\ call.op = "merge"
    /\ call.dire = "RIGHT"
    /\ call.w0 = 4 /\ call.h0 = 4
    /\ call.grid0 = [Blank(4, 4) EXCEPT ![0] = W(2)]
    /\ mGrid = [Blank(4, 4) EXCEPT ![3] = W(2)]
    /\ call.flag
    /\ call.ret = 0

(***************************************************************************)
(* C10: a move of a grid whose only tile lies in the edge cell of its line *)
(* (on the edge the move is directed to) changes no cell, reports no       *)
(* motion and leaves the running score unchanged.                          *)
(***************************************************************************)
C10_Case ==
    /\ CalledMerge
    /\ Tiles(call.grid0) = 1
    /\ \E l \in CallLines : Line0(l)[1] # Zero

C10_TileOnEdgeIsNoOp ==
    C10_Case => (mGrid = call.grid0 /\ ~call.flag /\ mScore = call.score0)

C10_Witness ==
    /\ C10_Case
    /\ call.op = "merge"
    /\ call.dire = "LEFT"
    /\ call.w0 = 4 /\ call.h0 = 1
    /\ call.grid0 = [Blank(4, 1) EXCEPT ![0] = W(4)]
    /\ mGrid = call.grid0

(***************************************************************************)
(* Vocabulary of the properties of generate and generate_randomly.         *)
(***************************************************************************)
CalledSpawn == call.op \in {"generate", "generate_randomly"}

\* the cells the call changed
Changed == {i \in DOMAIN mGrid : mGrid[i] # call.grid0[i]}

(***************************************************************************)
(* C11 (as claimed): generate with a non-zero target on a board that is    *)
(* not full returns false and changes exactly one cell, which was zero     *)
(* before and holds the target afterwards, every other cell keeping its    *)
(* value; on a full board it returns true and changes no cell.             *)
(***************************************************************************)
C11_GeneratePlacesOneTile ==
    CalledSpawn =>
        IF Full(call.grid0)
        THEN call.flag /\ call.err = "none" /\ Changed = {}
        ELSE /\ ~call.flag
             /\ call.err = "none"
             /\ \E i \in DOMAIN mGrid :
                   /\ Changed = {i}
                   /\ call.grid0[i] = Zero
                   /\ mGrid[i] = call.val

(***************************************************************************)
(* C12 (as claimed): generate writes only a cell of the grid's storage     *)
(* [0, width * height), also on a grid made smaller by reset after the     *)
(* first call of generate and on a second, smaller Grid.                   *)
(***************************************************************************)
C12_GenerateWritesInsideTheGrid ==
    CalledSpawn => call.err # "OutOfBounds"

(***************************************************************************)
(* C13 (as claimed): on a board with an empty cell, generate returns, and  *)
(* every empty cell is an index its random source can yield, also on a     *)
(* grid enlarged by reset after the first call of generate.                *)
(***************************************************************************)
C13_GenerateFindsEveryEmptyCell ==
    (CalledSpawn /\ ~Full(call.grid0))
    => /\ call.err # "NoReturn"
       /\ \A i \in DOMAIN call.grid0 :
             call.grid0[i] = Zero => i \in 0 .. pos_dist - 1

(***************************************************************************)
(* C14: from reset on, under every sequence of spawns (generate(2),        *)
(* generate_randomly) and merges in any directions, every non-zero cell of *)
(* the grid holds a positive power of two.                                 *)
(***************************************************************************)
\* n = 2^e for some e >= lo, n being less than Limb
PowerOfTwoFrom(n, lo) == \E e \in lo .. 16 : n = 2^e

\* the storage_t value v is 2^e for some e >= 1
PositivePowerOfTwo(v) ==
    \/ v[1] = 0 /\ PowerOfTwoFrom(v[2], 1)
    \/ v[2] = 0 /\ PowerOfTwoFrom(v[1], 0)

C14_CellsArePowersOfTwo ==
    \A i \in DOMAIN mGrid : mGrid[i] = Zero \/ PositivePowerOfTwo(mGrid[i])

\* two spawned 16 tiles have been merged
C14_Witness ==
    /\ call.op = "merge"
    /\ call.merges = 1
    /\ \E i \in DOMAIN call.grid0 : call.grid0[i] = W(16)
    /\ \E i \in DOMAIN mGrid : mGrid[i] = W(32)

(***************************************************************************)
(* C15 (as claimed): between two resets the accumulated score never        *)
(* decreases and equals the sum of the doubled values of all merges made   *)
(* since the reset.  Stated call by call: a merge adds to the score the    *)
(* sum of the values of the cells it doubled, and get, put, generate,      *)
(* generate_randomly, only_merge, slide, is_full and is_fail leave the     *)
(* score as it was.                                                        *)
(***************************************************************************)
C15_ScoreIsTheSumOfMerges ==
    /\ call.op = "merge"
       => (mScore >= call.score0 /\ W(mScore - call.score0) = call.gained)
    /\ call.op \notin {"none", "merge", "reset", "Grid"} => mScore = call.score0

(***************************************************************************)
(* C16: merge and only_merge in any direction, and slide on any cell of    *)
(* the grid, on a grid of any dimensions from 1x1 on and with any cell     *)
(* contents, end without an out-of-range error leaving them: the failed    *)
(* probe beyond the boundary is caught in slide.                           *)
(***************************************************************************)
C16_MovesRaiseNoOutOfRange ==
    call.op \in {"merge", "only_merge", "slide"} => call.err = "none"

\* a slide whose probe left the grid: the tile ran to the edge
C16_Witness ==
    /\ call.op = "slide"
    /\ call.dire = "RIGHT"
    /\ call.x = 0 /\ call.y = 0
    /\ call.w0 = 4 /\ call.h0 = 1
    /\ call.grid0 = [Blank(4, 1) EXCEPT ![0] = W(2)]
    /\ mGrid = [Blank(4, 1) EXCEPT ![3] = W(2)]
    /\ call.err = "none"

(***************************************************************************)
(* C17: in the game loop, an iteration that handles a direction key spawns *)
(* a random tile if and only if the merge for that key reported motion; a  *)
(* spawn adds one tile, of value 2, 4, 8 or 16, in a cell the merge left   *)
(* empty; a wholly blocked move spawns no tile and leaves the grid and the *)
(* score unchanged.                                                        *)
(***************************************************************************)
C17_Iteration ==
    (screen = "game" /\ proc = "running" /\ key' \in DIRECTION)
    => \E m \in {merge(mGrid, mWidth, mHeight, mScore, key')} :
          /\ gen' = m.have_motions
          /\ gen' => /\ mScore' = m.score
                     /\ \E i \in DOMAIN mGrid :
                           /\ {j \in DOMAIN mGrid : mGrid'[j] # m.grid[j]} = {i}
                           /\ m.grid[i] = Zero
                           /\ mGrid'[i] \in {W(2), W(4), W(8), W(16)}
          /\ m.grid = mGrid => ~gen'
          /\ ~gen' => (mGrid' = mGrid /\ mScore' = mScore)

C17_SpawnIffMotion == [][C17_Iteration]_vars

\* a blocked move on the default grid: no tile was spawned
C17_Witness ==
    /\ screen = "game"
    /\ key \in DIRECTION
    /\ ~gen
    /\ config_width = default_width
    /\ Tiles(mGrid) = 1

(***************************************************************************)
(* C18: get(x, y) and put(x, y, v) with x outside [0, width) or y outside  *)
(* [0, height) fail with an out-of-range error and leave every cell and    *)
(* the score unchanged; with coordinates inside the grid, get returns the  *)
(* cell and changes nothing, put changes only cell (x, y), and a following *)
(* get(x, y) returns v.                                                    *)
(***************************************************************************)
C18_Inside ==
    /\ 0 <= call.x /\ call.x < call.w0
    /\ 0 <= call.y /\ call.y < call.h0

C18_GetPutAreBoundsChecked ==
    /\ (call.op \in {"get", "put"} /\ ~C18_Inside)
       => (call.err = "OutOfRange" /\ mGrid = call.grid0 /\ mScore = call.score0)
    /\ (call.op = "get" /\ C18_Inside)
       => /\ call.err = "none"
          /\ call.val = call.grid0[call.x + call.y * call.w0]
          /\ mGrid = call.grid0 /\ mScore = call.score0
    /\ (call.op = "put" /\ C18_Inside)
       => /\ call.err = "none"
          /\ \A i \in DOMAIN mGrid :
                i # call.x + call.y * call.w0 => mGrid[i] = call.grid0[i]
          /\ get(mGrid, mWidth, mHeight, call.x, call.y)
                = [err |-> "none", val |-> call.val]
          /\ mScore = call.score0

\* a put just beyond the right edge of a grid that holds a tile
C18_Witness ==
    /\ call.op = "put"
    /\ call.x = call.w0 /\ call.y = 0
    /\ call.err = "OutOfRange"
    /\ Tiles(mGrid) > 0

(***************************************************************************)
(* C19: generate_randomly passes a value of {2, 4, 8, 16} to generate;     *)
(* when it returns, every cell that was non-zero holds the value it held,  *)
(* a changed cell holds the value passed, and the result is true exactly   *)
(* when the board was already full.                                        *)
(***************************************************************************)
C19_RandomTileIsPlacedByGenerate ==
    call.op = "generate_randomly"
    => /\ call.val \in {W(2), W(4), W(8), W(16)}
       /\ call.err # "NoReturn"
          => /\ \A i \in DOMAIN mGrid :
                   call.grid0[i] # Zero => mGrid[i] = call.grid0[i]
             /\ \A i \in Changed : mGrid[i] = call.val
             /\ call.flag <=> Full(call.grid0)

\* generate_randomly has placed an 8 on a board that held a tile
C19_Witness ==
    /\ call.op = "generate_randomly"
    /\ call.val = W(8)
    /\ Tiles(call.grid0) > 0
    /\ Changed # {}
    /\ ~call.flag

(***************************************************************************)
(* C20: of the 64 outcomes of three draws from {0, 1, 2, 3},               *)
(* generate_randomly chooses the value 2 in 48, 4 in 12, 8 in 3 and 16 in  *)
(* 1 (a draw hits when it is 0, and the next draw matters only after a     *)
(* hit); the value of every call is one of these.                          *)
(***************************************************************************)
C20_Outcomes(v) ==
    Cardinality({d \in Draws \X Draws \X Draws : RandomTile(d[1], d[2], d[3]) = v})

C20_RandomTileDistribution ==
    /\ Cardinality(Draws \X Draws \X Draws) = 64
    /\ C20_Outcomes(W(2)) = 48
    /\ C20_Outcomes(W(4)) = 12
    /\ C20_Outcomes(W(8)) = 3
    /\ C20_Outcomes(W(16)) = 1
    /\ call.op = "generate_randomly"
       => \E d \in Draws \X Draws \X Draws : call.val = RandomTile(d[1], d[2], d[3])

\* generate_randomly has passed on the rarest value
C20_Witness ==
    /\ call.op = "generate_randomly"
    /\ call.val = W(16)
    /\ call.val = RandomTile(0, 0, 0)

\* C21: after reset() every cell is zero, the score is zero, and width and
\* height are those before the call; after reset(w, h) the grid has the
\* dimensions w and h, every cell is zero and the score is zero; when a game
\* session starts the board has the configured dimensions, holds exactly one
\* tile, of value 2, and the score is 0.
C21_ResetClearsAndSessionStartsWithOneTile ==
    /\ call.op = "reset()"
       => /\ mWidth = call.w0
          /\ mHeight = call.h0
          /\ DOMAIN mGrid = 0 .. (mWidth * mHeight - 1)
          /\ AllZero(mGrid)
          /\ mScore = 0
    /\ call.op = "reset"
       => /\ mWidth = call.x
          /\ mHeight = call.y
          /\ DOMAIN mGrid = 0 .. (mWidth * mHeight - 1)
          /\ AllZero(mGrid)
          /\ mScore = 0
    /\ (screen = "game" /\ key = "a")
       => /\ mWidth = config_width
          /\ mHeight = config_height
          /\ DOMAIN mGrid = 0 .. (mWidth * mHeight - 1)
          /\ Tiles(mGrid) = 1
          /\ \E i \in DOMAIN mGrid : mGrid[i] = W(2)
          /\ mScore = 0

\* reset(w, h) has been called with new dimensions on a grid that held tiles
\* and a score
C21_Witness ==
    /\ call.op = "reset"
    /\ call.x # call.w0
    /\ call.y # call.h0
    /\ ~AllZero(call.grid0)
    /\ call.score0 > 0
    /\ mWidth * mHeight > 1

\* reset() has been called on a grid that held tiles and a score
C21_ResetKeepWitness ==
    /\ call.op = "reset()"
    /\ ~AllZero(call.grid0)
    /\ call.score0 > 0
    /\ mWidth * mHeight > 1

\* a session has just begun on the default board
C21_SessionWitness ==
    /\ screen = "game"
    /\ key = "a"
    /\ config_width = default_width
    /\ config_height = default_height
    /\ Tiles(mGrid) = 1
    /\ play.script = -1

(***************************************************************************)
(* The reference of a move on one line.  A line is the sequence of its     *)
(* cells from the cell on the target edge on.                              *)
(***************************************************************************)
\* the tiles of the line, in order, without the zeros
Compact(ln) == SelectSeq(ln, LAMBDA v : v # Zero)

\* the first position, from the target edge, of two equal neighbouring values
\* (0: there is none)
FirstPair(c) ==
    IF \E i \in 1 .. Len(c) - 1 : c[i] = c[i + 1]
    THEN CHOOSE i \in 1 .. Len(c) - 1 :
            /\ c[i] = c[i + 1]
            /\ \A j \in 1 .. i - 1 : c[j] # c[j + 1]
    ELSE 0

\* the line after the move
RefLine(ln) ==
    LET c == Compact(ln)
        i == FirstPair(c)
        m == IF i = 0 THEN c
             ELSE [j \in 1 .. Len(c) - 1 |->
                     IF j < i THEN c[j] ELSE IF j = i THEN Dbl(c[i]) ELSE c[j + 1]]
    IN  [j \in 1 .. Len(ln) |-> IF j <= Len(m) THEN m[j] ELSE Zero]

\* the doubled value of the line's merge (zero: the line has no merge)
RefGain(ln) ==
    LET c == Compact(ln)
        i == FirstPair(c)
    IN  IF i = 0 THEN Zero ELSE Dbl(c[i])

\* the sum of the doubled values of the lines 0 .. n - 1 of the call
RECURSIVE RefGainSum(_)
RefGainSum(n) ==
    IF n = 0 THEN Zero ELSE Add(RefGainSum(n - 1), RefGain(Line0(n - 1)))

\* the value is below 2^30
BelowBig(v) == v[1] < BigTile[1]

(***************************************************************************)
(* C22 (as claimed): for every line content, the line after merge or       *)
(* only_merge is the reference line (zeros dropped, the first pair of      *)
(* equal neighbours from the target edge replaced by its double, zeros     *)
(* padded away from the edge), and the score the move gained (0 when it    *)
(* reports no motion) is the sum of the lines' doubled values.             *)
(***************************************************************************)
C22_OneMergePerLineAsReference ==
    CalledMerge
    => /\ \A l \in CallLines : Line1(l) = RefLine(Line0(l))
       /\ \E gain \in {IF call.flag THEN call.ret ELSE 0} :
             gain >= 0 /\ W(gain) = RefGainSum(NLines(call.w0, call.h0, call.dire))

\* C22 for the grids whose tiles are all below 2^30
C22_BelowBig ==
    (\A i \in DOMAIN call.grid0 : BelowBig(call.grid0[i]))
    => C22_OneMergePerLineAsReference

\* every cell of the grid before the call is below 2^30
CallBelowBig == \A i \in DOMAIN call.grid0 : BelowBig(call.grid0[i])

\* C23: for grids with tile values below 2^30, the motion flag reported by
\* merge / only_merge is true exactly when the grid after the call differs
\* from the grid before the call.
C23_MotionFlagIffGridChanged ==
    (CalledMerge /\ CallBelowBig) => (call.flag <=> mGrid # call.grid0)

\* a move that only slides a tile (no merge) and is reported as a motion
C23_Witness ==
    /\ CalledMerge /\ CallBelowBig
    /\ call.flag /\ call.merges = 0 /\ mGrid # call.grid0

(***************************************************************************)
(* Claims about one call of slide(x, y, dire, skip_merge).                 *)
(***************************************************************************)
\* the number of steps from (x, y) in direction dire to the first cell that
\* is not empty, 0 when every cell up to the edge is empty
FirstOccupied(g, w, h, x, y, dire) ==
    LET n == CellsToEdge(w, h, x, y, dire)
        occ == {j \in 1 .. n : g[StepIdx(w, x, y, dire, j)] # Zero}
    IN  IF occ = {} THEN 0 ELSE CHOOSE j \in occ : \A i \in occ : j <= i

SlideInside == call.op = "slide" /\ InRange(call.w0, call.h0, call.x, call.y)

SlideSrc == call.x + call.y * call.w0

SlideDist == FirstOccupied(call.grid0, call.w0, call.h0, call.x, call.y, call.dire)

SlideAt(n) == StepIdx(call.w0, call.x, call.y, call.dire, n)

\* slide without skip_merge from a tile whose first occupied cell in the
\* direction holds the same value
C24_Case ==
    /\ SlideInside /\ ~call.skip
    /\ call.grid0[SlideSrc] # Zero
    /\ SlideDist >= 1
    /\ call.grid0[SlideAt(SlideDist)] = call.grid0[SlideSrc]

\* C24: slide without skip_merge on a tile whose first occupied cell in the
\* direction holds the same value doubles that cell, empties the source,
\* changes no other cell and returns the doubled value.
C24_SlideMergesAndReturnsDouble ==
    C24_Case
    => /\ mGrid = [call.grid0 EXCEPT ![SlideAt(SlideDist)] = Dbl(call.grid0[SlideSrc]),
                                     ![SlideSrc] = Zero]
       /\ call.ret > 0
       /\ W(call.ret) = Dbl(call.grid0[SlideSrc])

\* the same statement for source tiles below 2^30
C24_BelowBig ==
    (C24_Case /\ BelowBig(call.grid0[SlideSrc])) => C24_SlideMergesAndReturnsDouble

\* slide from a tile whose first occupied cell holds another value, or any
\* value when skip_merge is set
C25_Blocked ==
    /\ SlideInside
    /\ call.grid0[SlideSrc] # Zero
    /\ SlideDist >= 1
    /\ (call.skip \/ call.grid0[SlideAt(SlideDist)] # call.grid0[SlideSrc])

\* C25: a blocked slide leaves the blocking cell unchanged; with an empty cell
\* in between the tile moves to the cell just before the blocking cell, the
\* source becomes zero and 0 is returned; with the blocking cell adjacent
\* nothing changes and -1 is returned.  slide on an empty source returns -1
\* and changes nothing.
C25_BlockedSlideStopsBeforeTheBlock ==
    /\ C25_Blocked
       => /\ call.err = "none"
          /\ mGrid[SlideAt(SlideDist)] = call.grid0[SlideAt(SlideDist)]
          /\ SlideDist >= 2
             => /\ mGrid = [call.grid0 EXCEPT ![SlideAt(SlideDist - 1)] = call.grid0[SlideSrc],
                                              ![SlideSrc] = Zero]
                /\ call.ret = 0
          /\ SlideDist = 1 => (mGrid = call.grid0 /\ call.ret = -1)
    /\ (SlideInside /\ call.grid0[SlideSrc] = Zero)
       => (mGrid = call.grid0 /\ call.ret = -1 /\ call.err = "none")

\* a tile stopped, after crossing an empty cell, by an equal tile because
\* skip_merge was set
C25_Witness ==
    /\ C25_Blocked /\ call.skip /\ SlideDist >= 2
    /\ call.grid0[SlideAt(SlideDist)] = call.grid0[SlideSrc]
    /\ mGrid[SlideAt(SlideDist - 1)] = call.grid0[SlideSrc]
    /\ mGrid[SlideSrc] = Zero

\* C26: for every tile value whose double fits the 64-bit cell, a move that
\* merges tiles is reported as a motion, returns the doubled values as its
\* score contribution and (merge) adds them to the running score: no
\* narrower integer changes the value on the way.
C26_MergeReportsTheDoubledValue ==
    (CalledMerge /\ call.merges >= 1)
    => /\ call.flag
       /\ call.ret > 0
       /\ W(call.ret) = call.gained
       /\ call.op = "merge" => mScore - call.score0 = call.ret

\* the same statement for grids whose tiles are all below 2^30
C26_BelowBig == CallBelowBig => C26_MergeReportsTheDoubledValue

\* the sum of the first n values of a line
RECURSIVE LineSum(_, _)
LineSum(ln, n) == IF n = 0 THEN Zero ELSE Add(LineSum(ln, n - 1), ln[n])

\* the sum of the cells 0 .. n - 1 of a grid
RECURSIVE GridSum(_, _)
GridSum(g, n) == IF n = 0 THEN Zero ELSE Add(GridSum(g, n - 1), g[n - 1])

\* a call that leaves the dimensions of the grid as they were
CalledOnGrid == call.op \notin {"none", "reset", "Grid"}

\* C27: merge and only_merge in any direction keep the sum of the values of
\* every line parallel to the move, and the number of non-zero cells falls by
\* the number of merges of the move; a call changes the sum of the grid only
\* if it is a spawn, and then the sum grows by the spawned value.
C27_MergeKeepsLineSumsOnlySpawnAdds ==
    /\ CalledMerge
       => /\ \A l \in CallLines :
                LineSum(Line1(l), Len(Line1(l))) = LineSum(Line0(l), Len(Line0(l)))
          /\ Tiles(mGrid) = Tiles(call.grid0) - call.merges
    /\ CalledOnGrid
       => \E s0 \in {GridSum(call.grid0, call.w0 * call.h0)},
             s1 \in {GridSum(mGrid, mWidth * mHeight)} :
                s1 # s0 => (CalledSpawn /\ s1 = Add(s0, call.val))

\* a move that merged a pair and left another tile on the board
C27_Witness ==
    /\ CalledMerge /\ call.merges >= 1
    /\ Tiles(mGrid) >= 2
    /\ mGrid # call.grid0

(***************************************************************************)
(* Minesweeper (src/minesweeper/minesweeper.cc): class grid (place_mines,  *)
(* try_open, is_succeed) and game_context::handle_ch.  The grid is a       *)
(* function from <<x, y>> to a block; num = -1 stands for the value of a   *)
(* block whose num was never assigned.  The loop of place_mines is         *)
(* followed draw by draw: the key event that makes the first click enters  *)
(* the loop, PlaceDraw is one iteration with the drawn x and y, and        *)
(* PlaceReturn is the rest of the handler once the loop has ended.         *)
(* Messages, times and the drawing of the screen are left out.             *)
(***************************************************************************)
\* widest and tallest minesweeper grid explored (the narrowest is 3 x 3)
MineW == 4
MineH == 3
\* most cells of a minesweeper grid explored
MineArea == 12
\* most mines a difficulty asks for
MaxMines == 4
\* most key events followed in one game
MaxKeys == 5

ERR_TOO_MANY_MINES == 2
OPEN_RESULT_BOMW == -1
OPEN_RESULT_HAS_FLAG == 1

Cells(w, h) == (0 .. w - 1) \X (0 .. h - 1)

\* block::block()
block == [is_opened |-> FALSE, has_flag |-> FALSE, type |-> "TYPE_EMPTY", num |-> -1]

\* grid::resize(width, height)
resize(w, h) == [c \in Cells(w, h) |-> block]

limited_sub(target, max, min) == IF target <= min THEN max ELSE target - 1

limited_add(target, max, min) == IF target >= max THEN min ELSE target + 1

Abs(n) == IF n < 0 THEN -n ELSE n

\* place_mines: the test made before the loop
place_mines_refuses(mine_number, w, h) == mine_number > w * h - 9

\* place_mines rejecting only a draw of the excluded cell itself (a variant
\* the properties must tell from place_mines_draw)
place_mines_draw_excludes_one_cell(g, i, x, y, ex, ey) ==
    IF (Abs(x - ex) = 0 /\ Abs(y - ey) = 0) \/ g[<<x, y>>].type # "TYPE_EMPTY"
    THEN [grid |-> g, i |-> i]
    ELSE [grid |-> [g EXCEPT ![<<x, y>>].type = "TYPE_MINE"], i |-> i + 1]

\* place_mines: one iteration of the loop, (x, y) drawn, (ex, ey) excluded;
\* a rejected draw leaves i as it was (i -= 1; continue; i++)
place_mines_draw(g, i, x, y, ex, ey) ==
    IF (Abs(x - ex) <= 1 /\ Abs(y - ey) <= 1) \/ g[<<x, y>>].type # "TYPE_EMPTY"
    THEN [grid |-> g, i |-> i]
    ELSE [grid |-> [g EXCEPT ![<<x, y>>].type = "TYPE_MINE"], i |-> i + 1]

\* the cells around (ox, oy) in the order try_open visits them
Offsets == << <<-1, -1>>, <<-1, 0>>, <<-1, 1>>, <<0, -1>>, <<0, 1>>,
              <<1, -1>>, <<1, 0>>, <<1, 1>> >>

Around(w, h, ox, oy) ==
    SelectSeq([k \in 1 .. Len(Offsets) |-> <<ox + Offsets[k][1], oy + Offsets[k][2]>>],
              LAMBDA c : c \in Cells(w, h))

InSeq(s, c) == \E k \in 1 .. Len(s) : s[k] = c

\* try_open: the loops over the cells around one origin, from the k-th on
RECURSIVE try_open_around(_, _, _, _, _)
try_open_around(g, waitlist, nb, k, st) ==
    IF k > Len(nb) THEN st
    ELSE try_open_around(g, waitlist, nb, k + 1,
             IF g[nb[k]].type = "TYPE_MINE"
             THEN [num_nearby_mines |-> st.num_nearby_mines + 1,
                   stop_spread      |-> TRUE,
                   tmp_waitlist     |-> IF st.stop_spread THEN st.tmp_waitlist
                                                          ELSE << >>]
             ELSE IF ~st.stop_spread /\ ~InSeq(waitlist, nb[k])
             THEN [st EXCEPT !.tmp_waitlist = Append(st.tmp_waitlist, nb[k])]
             ELSE st)

\* try_open: the while loop from position index of the waitlist (1-based)
RECURSIVE try_open_loop(_, _, _, _, _)
try_open_loop(g, w, h, waitlist, index) ==
    IF index > Len(waitlist) THEN g
    ELSE LET o  == waitlist[index]
             g1 == IF ~g[o].has_flag THEN [g EXCEPT ![o].is_opened = TRUE] ELSE g
             st == try_open_around(g1, waitlist, Around(w, h, o[1], o[2]), 1,
                                   [num_nearby_mines |-> 0, stop_spread |-> FALSE,
                                    tmp_waitlist |-> << >>])
         IN  try_open_loop([g1 EXCEPT ![o].num = st.num_nearby_mines], w, h,
                           waitlist \o st.tmp_waitlist, index + 1)

\* grid::try_open(in_x, in_y)
try_open(g, w, h, in_x, in_y) ==
    IF g[<<in_x, in_y>>].has_flag THEN [grid |-> g, code |-> OPEN_RESULT_HAS_FLAG]
    ELSE IF g[<<in_x, in_y>>].is_opened THEN [grid |-> g, code |-> 0]
    ELSE IF g[<<in_x, in_y>>].type = "TYPE_MINE"
         THEN [grid |-> g, code |-> OPEN_RESULT_BOMW]
    ELSE [grid |-> try_open_loop(g, w, h, << <<in_x, in_y>> >>, 1), code |-> 0]

\* grid::is_succeed()
is_succeed(g) ==
    \A c \in DOMAIN g : g[c].type = "TYPE_EMPTY" => g[c].is_opened

\* handle_ch, case ' ': from try_open on, with _game_over false on entry
handle_open(g, w, h, x, y) ==
    CHOOSE res \in
        {[grid |-> r.grid, code |-> r.code,
          game_over |-> \/ (r.code # 0 /\ r.code # OPEN_RESULT_HAS_FLAG)
                        \/ is_succeed(r.grid)] :
            r \in {try_open(g, w, h, x, y)}} : TRUE

\* the difficulties a game_context is constructed with
Difficulties ==
    {d \in [width : 3 .. MineW, height : 3 .. MineH, num_mines : 0 .. MaxMines] :
        d.width * d.height <= MineArea}

\* the variables of x2048 while another program is followed
NoX2048 ==
    /\ mWidth = 0
    /\ mHeight = 0
    /\ mGrid = << >>
    /\ mScore = 0
    /\ pos_dist = 0
    /\ call = NoCall
    /\ config_width = 0
    /\ config_height = 0
    /\ screen = "none"
    /\ key = "none"
    /\ gen = FALSE
    /\ proc = "none"
    /\ ggScore = 0
    /\ play = [script |-> -1, free |-> 0]

x2048Vars == <<gridVars, call, config_width, config_height, screen, key, gen, proc,
               ggScore, play>>

\* game_context::game_context(d)
MinesInit ==
    /\ NoX2048
    /\ NoSnake
    /\ difficulty \in Difficulties
    /\ game_grid = resize(difficulty.width, difficulty.height)
    /\ cur_x = 0
    /\ cur_y = 0
    /\ game_over = FALSE
    /\ first_click = TRUE
    /\ num_flags = 0
    /\ place = [pc |-> "none", i |-> 0, x |-> 0, y |-> 0, ret |-> 0, first |-> NoCell]
    /\ keys = 0

\* a key event can be handled: no handler is running
KeyEvent ==
    /\ snake_proc = "none"
    /\ proc = "none"
    /\ place.pc # "loop"
    /\ keys < MaxKeys
    /\ keys' = keys + 1

\* handle_ch: the cursor keys
KeyMove(ch) ==
    /\ KeyEvent
    /\ cur_y' = CASE ch = "w" -> limited_sub(cur_y, difficulty.height - 1, 0)
                  [] ch = "s" -> limited_add(cur_y, difficulty.height - 1, 0)
                  [] OTHER    -> cur_y
    /\ cur_x' = CASE ch = "a" -> limited_sub(cur_x, difficulty.width - 1, 0)
                  [] ch = "d" -> limited_add(cur_x, difficulty.width - 1, 0)
                  [] OTHER    -> cur_x
    /\ UNCHANGED <<game_grid, difficulty, game_over, first_click, num_flags, place>>
    /\ UNCHANGED <<x2048Vars, snakeVars>>

\* handle_ch, case ' ', after place_mines has returned: try_open at the
\* cell (pl.x, pl.y) of the click.  pl.first keeps the first cell at which
\* try_open went past its has_flag test, that is the first opened cell
\* (or the mine that was hit first).
OpenRest(pl) ==
    \E r \in {handle_open(game_grid, difficulty.width, difficulty.height,
                          pl.x, pl.y)} :
        /\ game_grid' = r.grid
        /\ game_over' = r.game_over
        /\ first_click' = FALSE
        /\ place' = [pl EXCEPT !.first =
                        IF pl.first = NoCell /\ r.code # OPEN_RESULT_HAS_FLAG
                        THEN <<pl.x, pl.y>>
                        ELSE pl.first]

\* handle_ch, case ' ' (or '\n'): the first click enters place_mines
KeyOpen ==
    /\ KeyEvent
    /\ IF game_over
       THEN UNCHANGED <<game_grid, game_over, first_click, place>>
       ELSE IF first_click
       THEN IF place_mines_refuses(difficulty.num_mines, difficulty.width,
                                   difficulty.height)
            THEN OpenRest([place EXCEPT !.pc = "returned", !.i = 0, !.x = cur_x,
                                        !.y = cur_y, !.ret = ERR_TOO_MANY_MINES])
            ELSE /\ place' = [place EXCEPT !.pc = "loop", !.i = 0, !.x = cur_x,
                                           !.y = cur_y, !.ret = 0]
                 /\ UNCHANGED <<game_grid, game_over, first_click>>
       ELSE OpenRest([place EXCEPT !.pc = "none", !.x = cur_x, !.y = cur_y])
    /\ UNCHANGED <<difficulty, cur_x, cur_y, num_flags>>
    /\ UNCHANGED <<x2048Vars, snakeVars>>

\* place_mines: one iteration of the loop with the draws x and y
PlaceDraw(x, y) ==
    /\ place.pc = "loop"
    /\ place.i < difficulty.num_mines
    /\ \E r \in {place_mines_draw(game_grid, place.i, x, y, place.x, place.y)} :
          /\ game_grid' = r.grid
          /\ place' = [place EXCEPT !.i = r.i]
    /\ UNCHANGED <<difficulty, cur_x, cur_y, game_over, first_click, num_flags, keys>>
    /\ UNCHANGED <<x2048Vars, snakeVars>>

\* place_mines returns 0 and handle_ch goes on with try_open
PlaceReturn ==
    /\ place.pc = "loop"
    /\ place.i >= difficulty.num_mines
    /\ OpenRest([place EXCEPT !.pc = "returned", !.ret = 0])
    /\ UNCHANGED <<difficulty, cur_x, cur_y, num_flags, keys>>
    /\ UNCHANGED <<x2048Vars, snakeVars>>

\* handle_ch, case 'f'
KeyFlag ==
    /\ KeyEvent
    /\ IF game_over
       THEN UNCHANGED <<game_grid, num_flags>>
       ELSE \E b \in {IF ~game_grid[<<cur_x, cur_y>>].is_opened
                      THEN ~game_grid[<<cur_x, cur_y>>].has_flag
                      ELSE game_grid[<<cur_x, cur_y>>].has_flag} :
               /\ game_grid' = [game_grid EXCEPT ![<<cur_x, cur_y>>].has_flag = b]
               /\ num_flags' = IF b THEN num_flags + 1 ELSE num_flags - 1
    /\ UNCHANGED <<difficulty, cur_x, cur_y, game_over, first_click, place>>
    /\ UNCHANGED <<x2048Vars, snakeVars>>

MinesNext ==
    \/ \E ch \in {"w", "s", "a", "d"} : KeyMove(ch)
    \/ KeyOpen
    \/ \E x \in 0 .. difficulty.width - 1, y \in 0 .. difficulty.height - 1 :
          PlaceDraw(x, y)
    \/ PlaceReturn
    \/ KeyFlag

SpecMines == MinesInit /\ [][MinesNext]_vars

(***************************************************************************)
(* Claims about minesweeper.                                               *)
(***************************************************************************)
MinesOf(g) == {c \in DOMAIN g : g[c].type = "TYPE_MINE"}

FlagsOf(g) == {c \in DOMAIN g : g[c].has_flag}

\* cell c is the excluded cell of place_mines or touches it
NearExcluded(c) == Abs(c[1] - place.x) <= 1 /\ Abs(c[2] - place.y) <= 1

\* the draws that the loop of place_mines accepts in the current state
AcceptedDraws ==
    {c \in DOMAIN game_grid :
        place_mines_draw(game_grid, place.i, c[1], c[2], place.x, place.y).i
            = place.i + 1}

\* the part of C28 about place_mines alone: on a grid without mines, with
\* n <= width * height - 9, it ends with exactly n mines, none of them on the
\* excluded cell or a cell touching it (its loop always has a draw that it
\* accepts until n mines are placed); with n > width * height - 9 it returns
\* ERR_TOO_MANY_MINES and places no mine.
PlaceMinesKeepsAwayFromExcluded ==
    /\ place.pc = "returned"
       => IF difficulty.num_mines <= difficulty.width * difficulty.height - 9
          THEN /\ place.ret = 0
               /\ Cardinality(MinesOf(game_grid)) = difficulty.num_mines
               /\ \A c \in MinesOf(game_grid) : ~NearExcluded(c)
          ELSE /\ place.ret = ERR_TOO_MANY_MINES
               /\ MinesOf(game_grid) = {}
    /\ place.pc = "loop"
       => /\ Cardinality(MinesOf(game_grid)) = place.i
          /\ place.i < difficulty.num_mines => AcceptedDraws # {}

\* cell c is the first opened cell or touches it
NearFirstOpened(c) ==
    Abs(c[1] - place.first[1]) <= 1 /\ Abs(c[2] - place.first[2]) <= 1

\* the conclusion of C28: once a block has been opened, neither the first
\* opened cell nor a cell touching it is a mine
FirstOpenedCellIsAwayFromMines ==
    place.first # NoCell => \A c \in MinesOf(game_grid) : ~NearFirstOpened(c)

\* C28: place_mines(n, exclude) on a grid without mines, with
\* n <= width * height - 9, ends with exactly n mines, none of them within
\* distance 1 of the excluded cell, so that the first opened cell and the
\* cells touching it are never mines; with n > width * height - 9 it returns
\* ERR_TOO_MANY_MINES and places no mine.
C28_PlaceMinesAvoidsTheFirstClick ==
    /\ PlaceMinesKeepsAwayFromExcluded
    /\ FirstOpenedCellIsAwayFromMines

\* the first click fell on a flagged block: place_mines has kept away from
\* it, no block has been opened, and the first click is used up
C28_FirstClickOnAFlag ==
    /\ place.pc = "returned"
    /\ place.ret = 0
    /\ place.first = NoCell
    /\ ~first_click
    /\ game_grid[<<place.x, place.y>>].has_flag
    /\ MinesOf(game_grid) # {}

\* place_mines has placed as many mines as a grid allows: every cell that is
\* not excluded holds a mine
C28_Witness ==
    /\ place.pc = "returned"
    /\ place.ret = 0
    /\ difficulty.num_mines >= 1
    /\ difficulty.num_mines = difficulty.width * difficulty.height - 9
    /\ Cardinality(MinesOf(game_grid)) = difficulty.num_mines

\* C29: after any sequence of key events the flag counter equals the number
\* of blocks that carry a flag, and no opened block carries a flag.
C29_FlagCounterMatchesFlags ==
    snake_proc = "none" /\ proc = "none"
    => /\ num_flags = Cardinality(FlagsOf(game_grid))
       /\ \A c \in DOMAIN game_grid : game_grid[c].is_opened => ~game_grid[c].has_flag

\* the second half of C29 alone
C29_OpenedBlocksCarryNoFlag ==
    \A c \in DOMAIN game_grid : game_grid[c].is_opened => ~game_grid[c].has_flag

(***************************************************************************)
(* Snake (src/snake/snake.cc): class grid (at, move, put_snake,            *)
(* get_hided_body, add_apple) and the loop of game::render.  One iteration *)
(* of the loop is Idle (timer <= frame_time: process_key alone) or Tick    *)
(* (timer > frame_time: process_key, then the movement step and            *)
(* add_apple); which one it is depends on the time that has passed.  The   *)
(* drawing of the screen is left out.                                      *)
(***************************************************************************)
\* widest and tallest snake grid explored
SnakeW == 3
SnakeH == 3
\* key 'c' is followed while fewer apples than this lie on the grid
MaxApples == 2
\* most movement steps followed in one game
MaxTicks == 5

\* cell::cell()
cell == [status |-> "Empty", direction |-> "DNone", ndirection |-> "DNone"]

get_opposite_direction(d) ==
    CASE d = "DDown"  -> "DUp"
      [] d = "DUp"    -> "DDown"
      [] d = "DRight" -> "DLeft"
      [] d = "DLeft"  -> "DRight"
      [] OTHER        -> "DNone"

\* position::move(direction)
position_move(pos, direction) ==
    CASE direction = "DUp"    -> <<pos[1], pos[2] - 1>>
      [] direction = "DDown"  -> <<pos[1], pos[2] + 1>>
      [] direction = "DLeft"  -> <<pos[1] - 1, pos[2]>>
      [] direction = "DRight" -> <<pos[1] + 1, pos[2]>>
      [] OTHER                -> pos

\* grid::at(pos) does not throw
at_ok(w, h, pos) == ~(pos[2] >= h \/ pos[1] >= w \/ pos[1] < 0 \/ pos[2] < 0)

\* grid::move(pos_, direction, force) on cells g with head position hp
grid_move(g, w, h, hp, pos_, direction, force) ==
    IF ~at_ok(w, h, pos_)
    THEN [grid |-> g, head_pos |-> hp, ret |-> "Empty", err |-> "out_of_range"]
    ELSE LET hp1 == IF pos_ = hp THEN position_move(hp, direction) ELSE hp
             pos == position_move(pos_, direction)
         IN  IF ~at_ok(w, h, pos)
             THEN [grid |-> g, head_pos |-> hp1, ret |-> "Empty", err |-> "out_of_range"]
             ELSE IF ~force /\ g[pos].status # "Empty"
             THEN [grid |-> g, head_pos |-> hp1, ret |-> g[pos].status, err |-> "none"]
             ELSE [grid |-> [[g EXCEPT ![pos] =
                                [g[pos_] EXCEPT !.ndirection =
                                                    get_opposite_direction(direction)]]
                               EXCEPT ![pos_].status = "Empty"],
                   head_pos |-> hp1, ret |-> "Empty", err |-> "none"]

ApplesOf(g) == {c \in DOMAIN g : g[c].status = "Apple"}

BlanksOf(g) == {c \in DOMAIN g : g[c].status = "Empty"}

\* grid::add_apple(force), its loop ending with the draw a
add_apple(g, force, a) ==
    IF ~force /\ ApplesOf(g) # {} THEN [grid |-> g, ret |-> 1]
    ELSE IF BlanksOf(g) = {} THEN [grid |-> g, ret |-> 2]
    ELSE [grid |-> [g EXCEPT ![a].status = "Apple"], ret |-> 0]

\* the draws that end the loop of add_apple(force) on g (one draw stands for
\* the calls that draw nothing)
AppleDraws(g, force) ==
    IF (~force /\ ApplesOf(g) # {}) \/ BlanksOf(g) = {} THEN {<<0, 0>>}
    ELSE BlanksOf(g)

Keys == {"q", "KEY_UP", "KEY_RIGHT", "KEY_DOWN", "KEY_LEFT", "c", "ERR"}

\* the lambda process_key of game::render, wgetch returning k
process_key(g, hp, k, a) ==
    LET headd == g[hp].direction
    IN  CASE k = "q" -> [grid |-> g, ret |-> 1]
          [] k = "KEY_UP" /\ headd # "DDown"
               -> [grid |-> [g EXCEPT ![hp].direction = "DUp"], ret |-> 0]
          [] k = "KEY_RIGHT" /\ headd # "DLeft"
               -> [grid |-> [g EXCEPT ![hp].direction = "DRight"], ret |-> 0]
          [] k = "KEY_DOWN" /\ headd # "DUp"
               -> [grid |-> [g EXCEPT ![hp].direction = "DDown"], ret |-> 0]
          [] k = "KEY_LEFT" /\ headd # "DRight"
               -> [grid |-> [g EXCEPT ![hp].direction = "DLeft"], ret |-> 0]
          [] k = "c" -> [grid |-> add_apple(g, TRUE, a).grid, ret |-> 0]
          [] OTHER -> [grid |-> g, ret |-> 0]

\* game::render: the loop that moves the body cells after the head, from
\* position pos0 with next direction nd.  seen holds the states (cells,
\* position, direction) in which the loop has begun an iteration: when one
\* comes again the loop repeats itself for ever (err = "hang").
RECURSIVE move_body(_, _, _, _, _, _, _)
move_body(g, w, h, hp, pos0, nd, seen) ==
    IF nd = "DNone" THEN [grid |-> g, head_pos |-> hp, err |-> "none"]
    ELSE IF <<g, pos0, nd>> \in seen
    THEN [grid |-> g, head_pos |-> hp, err |-> "hang"]
    ELSE LET pos == position_move(pos0, nd)
         IN  IF ~at_ok(w, h, pos)
             THEN [grid |-> g, head_pos |-> hp, err |-> "out_of_range"]
             ELSE IF g[pos].status # "SnakeBody"
             THEN [grid |-> g, head_pos |-> hp, err |-> "none"]
             ELSE LET m == grid_move(g, w, h, hp, pos, get_opposite_direction(nd), TRUE)
                  IN  IF m.err # "none"
                      THEN [grid |-> m.grid, head_pos |-> m.head_pos, err |-> m.err]
                      ELSE move_body(m.grid, w, h, m.head_pos, pos,
                                     m.grid[pos].ndirection,
                                     seen \cup {<<g, pos0, nd>>})

\* game::render: the movement step of an iteration with timer > frame_time,
\* after process_key, up to the call of add_apple
movement(g, w, h, hp, hided, sc) ==
    LET pos == hp
        nd  == g[hp].ndirection
        d   == g[hp].direction
        m   == grid_move(g, w, h, hp, pos, d, FALSE)
        hb  == IF hided > 0 THEN hided - 1 ELSE hided
    IN  IF m.err # "none"
        THEN [grid |-> m.grid, head_pos |-> m.head_pos, hided |-> hided, score |-> sc,
              proc |-> "out_of_range", d |-> d]
        ELSE IF m.ret = "Apple"
        THEN LET tmp_cell == [g[pos] EXCEPT !.status = "SnakeBody"]
                 m2 == grid_move(m.grid, w, h, m.head_pos, pos, d, TRUE)
             IN  IF m2.err # "none"
                 THEN [grid |-> m2.grid, head_pos |-> m2.head_pos, hided |-> hided,
                       score |-> sc, proc |-> "out_of_range", d |-> d]
                 ELSE [grid |-> [m2.grid EXCEPT ![pos] = tmp_cell],
                       head_pos |-> m2.head_pos, hided |-> hb, score |-> sc + 1,
                       proc |-> "render", d |-> d]
        ELSE IF m.ret # "Empty"
        THEN [grid |-> m.grid, head_pos |-> m.head_pos, hided |-> hided, score |-> sc,
              proc |-> "gameover", d |-> d]
        ELSE IF hided > 0
        THEN [grid |-> [m.grid EXCEPT ![pos] =
                           [status |-> "SnakeBody", direction |-> d, ndirection |-> nd]],
              head_pos |-> m.head_pos, hided |-> hb, score |-> sc,
              proc |-> "render", d |-> d]
        ELSE LET b == move_body(m.grid, w, h, m.head_pos, pos, nd, {})
             IN  IF b.err # "none"
                 THEN [grid |-> b.grid, head_pos |-> b.head_pos, hided |-> hb,
                       score |-> sc, proc |-> b.err, d |-> d]
                 ELSE [grid |-> b.grid,
                       head_pos |-> b.head_pos, hided |-> hb, score |-> sc,
                       proc |-> "render", d |-> d]

\* grid::grid(width, height), game::game(&grid) with put_snake(3), init()
SnakeInit ==
    /\ NoX2048
    /\ NoMines
    /\ grid_width \in 1 .. SnakeW
    /\ grid_height \in 1 .. SnakeH
    /\ head_pos = <<grid_width \div 2, grid_height \div 2>>
    /\ snake_grid = [c \in Cells(grid_width, grid_height) |->
                        IF c = head_pos
                        THEN [status |-> "SnakeHead", direction |-> "DDown",
                              ndirection |-> "DNone"]
                        ELSE cell]
    /\ hided_bodies = 3 - 1
    /\ snake_score = 0
    /\ snake_proc = "render"
    /\ moved = [n |-> 0, d |-> "DNone", before |-> "DNone"]

\* key 'c' is followed on this grid
KeyFollowed(k) == k = "c" => Cardinality(ApplesOf(snake_grid)) < MaxApples

\* an iteration of render's loop with timer <= frame_time
Idle(k, a) ==
    /\ snake_proc = "render"
    /\ KeyFollowed(k)
    /\ a \in IF k = "c" THEN AppleDraws(snake_grid, TRUE) ELSE {<<0, 0>>}
    /\ \E r \in {process_key(snake_grid, head_pos, k, a)} :
          /\ snake_grid' = r.grid
          /\ snake_proc' = IF r.ret # 0 THEN "returned" ELSE snake_proc
    /\ UNCHANGED <<grid_width, grid_height, head_pos, hided_bodies, snake_score, moved>>
    /\ UNCHANGED <<x2048Vars, minesVars>>

\* an iteration of render's loop with timer > frame_time
Tick(k, a, a2) ==
    /\ snake_proc = "render"
    /\ moved.n < MaxTicks
    /\ KeyFollowed(k)
    /\ a \in IF k = "c" THEN AppleDraws(snake_grid, TRUE) ELSE {<<0, 0>>}
    /\ \E r \in {process_key(snake_grid, head_pos, k, a)} :
          IF r.ret # 0
          THEN /\ a2 = <<0, 0>>
               /\ snake_proc' = "returned"
               /\ UNCHANGED <<snake_grid, head_pos, hided_bodies, snake_score, moved>>
          ELSE \E s \in {movement(r.grid, grid_width, grid_height, head_pos,
                                  hided_bodies, snake_score)} :
                  /\ a2 \in IF s.proc = "render" THEN AppleDraws(s.grid, FALSE)
                                                 ELSE {<<0, 0>>}
                  /\ snake_grid' = IF s.proc = "render"
                                   THEN add_apple(s.grid, FALSE, a2).grid
                                   ELSE s.grid
                  /\ head_pos' = s.head_pos
                  /\ hided_bodies' = s.hided
                  /\ snake_score' = s.score
                  /\ snake_proc' = s.proc
                  /\ moved' = [n |-> moved.n + 1, d |-> s.d, before |-> moved.d]
    /\ UNCHANGED <<grid_width, grid_height>>
    /\ UNCHANGED <<x2048Vars, minesVars>>

SnakeNext ==
    \/ \E k \in Keys, a \in Cells(grid_width, grid_height) : Idle(k, a)
    \/ \E k \in Keys, a \in Cells(grid_width, grid_height),
          a2 \in Cells(grid_width, grid_height) : Tick(k, a, a2)

SpecSnake == SnakeInit /\ [][SnakeNext]_vars

\* C30: whatever arrow keys are read between two movement steps, the
\* direction of a step is never the opposite of the direction of the step
\* before it.
C30_NoReversalBetweenSteps ==
    moved.n >= 2 => moved.d # get_opposite_direction(moved.before)

====
